---------------------------- MODULE Spec2Model ----------------------------
(***************************************************************************)
(* Model of the EPUB/PDF to speech converter.                              *)
(*                                                                         *)
(*   - EPUBExtractor (modules/extractors/epub_extractor.py): the three     *)
(*     candidate tables of contents, their selection and the rendering of  *)
(*     the selected one, with the extractor's instance fields as state.    *)
(*   - AudioConverter (modules/conversion/converter.py): the chunk loop    *)
(*     of convert_text_to_speech with its pause/cancel flags, driven by    *)
(*     the chapter loop of TextToSpeechApp._convert_file, and the pure     *)
(*     function _split_into_chunks.                                        *)
(*                                                                         *)
(* Python strings are sequences of one-character strings, so that path     *)
(* resolution, regular expressions, sorting and formatting are computed    *)
(* character by character as the code computes them.                       *)
(***************************************************************************)
EXTENDS Integers, Sequences, FiniteSets, TLC

(***************************************************************************)
(* Characters and strings                                                  *)
(***************************************************************************)

\* The printable ASCII characters in code-point order, from 32 (space); the
\* grave accent (96) is held by a placeholder that equals no character.
Ascii ==
  << " ", "!", "\"", "#", "$", "%", "&", "'", "(", ")", "*", "+", ",", "-",
     ".", "/", "0", "1", "2", "3", "4", "5", "6", "7", "8", "9", ":", ";",
     "<", "=", ">", "?", "@", "A", "B", "C", "D", "E", "F", "G", "H", "I",
     "J", "K", "L", "M", "N", "O", "P", "Q", "R", "S", "T", "U", "V", "W",
     "X", "Y", "Z", "[", "\\", "]", "^", "_", "grave", "a", "b", "c", "d", "e",
     "f", "g", "h", "i", "j", "k", "l", "m", "n", "o", "p", "q", "r", "s",
     "t", "u", "v", "w", "x", "y", "z", "{", "|", "}", "~" >>

\* The code point of each character of the table.
CodeOf ==
  [c \in {Ascii[i] : i \in 1..Len(Ascii)} |->
     31 + CHOOSE i \in 1..Len(Ascii) : Ascii[i] = c]

\* ord(c): the code point of a character.
Ord(c) == CodeOf[c]

\* chr(n) for a printable code point.
Chr(n) == Ascii[n - 31]

IsDigit(c) == c \in {"0", "1", "2", "3", "4", "5", "6", "7", "8", "9"}

IsUpper(c) == Ord(c) >= 65 /\ Ord(c) <= 90

IsLower(c) == Ord(c) >= 97 /\ Ord(c) <= 122

IsAlpha(c) == IsUpper(c) \/ IsLower(c)

ToUpper(c) == IF IsLower(c) THEN Chr(Ord(c) - 32) ELSE c

ToLower(c) == IF IsUpper(c) THEN Chr(Ord(c) + 32) ELSE c

\* str.isspace for the characters of the model.
IsSpace(c) == c \in {" ", "\n", "\t"}

\* Code-point order extended to the two control characters of the model.
OrdAll(c) == IF c = "\t" THEN 9 ELSE IF c = "\n" THEN 10 ELSE Ord(c)

\* s < t in Python's string order (lexicographic by code point).
StrLess(s, t) ==
  LET n == IF Len(s) < Len(t) THEN Len(s) ELSE Len(t)
      differ == {i \in 1..n : s[i] # t[i]}
  IN  IF differ = {} THEN Len(s) < Len(t)
      ELSE LET k == CHOOSE i \in differ : \A j \in differ : i <= j
           IN  OrdAll(s[k]) < OrdAll(t[k])

\* s[i:j] with 1-based inclusive bounds, empty when i > j.
Slice(s, i, j) == IF i > j THEN <<>> ELSE SubSeq(s, i, j)

\* s.rfind(c), 1-based; 0 when c does not occur.
RFind(s, c) ==
  LET at == {i \in 1..Len(s) : s[i] = c}
  IN  IF at = {} THEN 0 ELSE CHOOSE i \in at : \A j \in at : j <= i

\* s.find(c), 1-based; 0 when c does not occur.
Find(s, c) ==
  LET at == {i \in 1..Len(s) : s[i] = c}
  IN  IF at = {} THEN 0 ELSE CHOOSE i \in at : \A j \in at : i <= j

\* s.startswith(p)
StartsWith(s, p) == Len(s) >= Len(p) /\ SubSeq(s, 1, Len(p)) = p

\* s.endswith(p)
EndsWith(s, p) ==
  Len(s) >= Len(p) /\ SubSeq(s, Len(s) - Len(p) + 1, Len(s)) = p

\* s.split(sep) for a non-empty separator string: a sequence of strings.
RECURSIVE SplitOn(_, _)
SplitOn(s, sep) ==
  LET at == {i \in 1..(Len(s) - Len(sep) + 1) : SubSeq(s, i, i + Len(sep) - 1) = sep}
  IN  IF at = {} THEN <<s>>
      ELSE LET i == CHOOSE k \in at : \A j \in at : k <= j
           IN  <<Slice(s, 1, i - 1)>> \o SplitOn(Slice(s, i + Len(sep), Len(s)), sep)

\* sep.join(parts)
RECURSIVE Join(_, _)
Join(parts, sep) ==
  IF parts = <<>> THEN <<>>
  ELSE IF Len(parts) = 1 THEN parts[1]
  ELSE parts[1] \o sep \o Join(Tail(parts), sep)

\* s.lstrip()
RECURSIVE LStrip(_)
LStrip(s) == IF s # <<>> /\ IsSpace(s[1]) THEN LStrip(Tail(s)) ELSE s

\* s.rstrip()
RECURSIVE RStrip(_)
RStrip(s) ==
  IF s # <<>> /\ IsSpace(s[Len(s)]) THEN RStrip(SubSeq(s, 1, Len(s) - 1)) ELSE s

\* s.strip()
Strip(s) == RStrip(LStrip(s))

\* s.split(): the maximal runs of non-space characters.
RECURSIVE Words(_)
Words(s) ==
  LET t == LStrip(s) IN
  IF t = <<>> THEN <<>>
  ELSE LET n == IF \E i \in 1..Len(t) : IsSpace(t[i])
                THEN (CHOOSE i \in 1..Len(t) :
                        IsSpace(t[i]) /\ \A j \in 1..(i-1) : ~IsSpace(t[j])) - 1
                ELSE Len(t)
       IN  <<SubSeq(t, 1, n)>> \o Words(Slice(t, n + 1, Len(t)))

\* int(s) for a string of decimal digits.
RECURSIVE IntOf(_)
IntOf(s) ==
  IF s = <<>> THEN 0
  ELSE 10 * IntOf(SubSeq(s, 1, Len(s) - 1)) + (Ord(s[Len(s)]) - 48)

\* str(n) for n >= 0.
RECURSIVE StrOf(_)
StrOf(n) ==
  IF n < 10 THEN <<Chr(48 + n)>> ELSE StrOf(n \div 10) \o <<Chr(48 + (n % 10))>>

\* f"{n:0{w}d}": the decimal digits of n, zero-padded on the left to width w.
RECURSIVE ZeroPad(_, _)
ZeroPad(s, w) == IF Len(s) >= w THEN s ELSE ZeroPad(<<"0">> \o s, w)

Fmt0(n, w) == ZeroPad(StrOf(n), w)

\* The sequence s without the elements that fail Keep.
RECURSIVE SelectChars(_, _)
SelectChars(s, bad) ==
  IF s = <<>> THEN <<>>
  ELSE IF s[1] \in bad THEN SelectChars(Tail(s), bad)
  ELSE <<s[1]>> \o SelectChars(Tail(s), bad)

(***************************************************************************)
(* Paths: os.path and urllib.parse as _resolve_path uses them              *)
(***************************************************************************)

HexDigits == << "0", "1", "2", "3", "4", "5", "6", "7", "8", "9",
                "A", "B", "C", "D", "E", "F" >>

IsHex(c) == \E i \in 1..Len(HexDigits) : HexDigits[i] = ToUpper(c)

HexVal(c) == (CHOOSE i \in 1..Len(HexDigits) : HexDigits[i] = ToUpper(c)) - 1

\* urllib.parse.unquote: %XX becomes the character with that code.  Escapes
\* of codes outside the printable ASCII table are left as they are written.
RECURSIVE UnquoteEscapes(_)
UnquoteEscapes(s) ==
  IF s = <<>> THEN <<>>
  ELSE IF /\ s[1] = "%"
          /\ Len(s) >= 3
          /\ IsHex(s[2]) /\ IsHex(s[3])
          /\ 16 * HexVal(s[2]) + HexVal(s[3]) \in (32..126) \ {96}
       THEN <<Chr(16 * HexVal(s[2]) + HexVal(s[3]))>>
              \o UnquoteEscapes(Slice(s, 4, Len(s)))
       ELSE <<s[1]>> \o UnquoteEscapes(Tail(s))

\* A string without "%" is returned as it is.
Unquote(s) == IF \A i \in 1..Len(s) : s[i] # "%" THEN s ELSE UnquoteEscapes(s)

\* os.path.basename
Basename(p) == Slice(p, RFind(p, "/") + 1, Len(p))

\* s.rstrip("/")
RECURSIVE RStripSlash(_)
RStripSlash(s) ==
  IF s # <<>> /\ s[Len(s)] = "/" THEN RStripSlash(SubSeq(s, 1, Len(s) - 1)) ELSE s

\* os.path.dirname
Dirname(p) ==
  LET head == Slice(p, 1, RFind(p, "/")) IN
  IF head # <<>> /\ \E i \in 1..Len(head) : head[i] # "/"
  THEN RStripSlash(head)
  ELSE head

\* os.path.join of two parts
PathJoin(a, b) ==
  IF b # <<>> /\ b[1] = "/" THEN b
  ELSE IF a = <<>> \/ a[Len(a)] = "/" THEN a \o b
  ELSE a \o <<"/">> \o b

\* The component loop of os.path.normpath.
RECURSIVE NormComps(_, _, _)
NormComps(comps, acc, rooted) ==
  IF comps = <<>> THEN acc
  ELSE LET c == comps[1] IN
       IF c = <<>> \/ c = <<".">> THEN NormComps(Tail(comps), acc, rooted)
       ELSE IF \/ c # <<".", ".">>
               \/ (~rooted /\ acc = <<>>)
               \/ (acc # <<>> /\ acc[Len(acc)] = <<".", ".">>)
            THEN NormComps(Tail(comps), Append(acc, c), rooted)
            ELSE IF acc # <<>>
                 THEN NormComps(Tail(comps), SubSeq(acc, 1, Len(acc) - 1), rooted)
                 ELSE NormComps(Tail(comps), acc, rooted)

\* os.path.normpath
NormPath(p) ==
  IF p = <<>> THEN <<".">>
  ELSE LET slashes == IF p[1] # "/" THEN <<>>
                      ELSE IF StartsWith(p, <<"/", "/">>) /\ ~StartsWith(p, <<"/", "/", "/">>)
                           THEN <<"/", "/">>
                           ELSE <<"/">>
           body == Join(NormComps(SplitOn(p, <<"/">>), <<>>, slashes # <<>>), <<"/">>)
           path == slashes \o body
       IN  IF path = <<>> THEN <<".">> ELSE path

\* s.replace('\\', '/')
BackslashToSlash(s) ==
  IF \A i \in 1..Len(s) : s[i] # "\\" THEN s
  ELSE [i \in 1..Len(s) |-> IF s[i] = "\\" THEN "/" ELSE s[i]]

\* EPUBExtractor._resolve_path
ResolvePath(base_path, href) ==
  IF href = <<>> THEN <<>>
  ELSE BackslashToSlash(NormPath(PathJoin(Dirname(base_path), Unquote(href))))

\* os.path.splitext(p)[0]
SplitextRoot(p) ==
  LET sep == RFind(p, "/")
      dot == RFind(p, ".")
  IN  IF dot > sep /\ \E k \in (sep + 1)..(dot - 1) : p[k] # "."
      THEN Slice(p, 1, dot - 1)
      ELSE p

AllDigits(s) == \A i \in 1..Len(s) : IsDigit(s[i])

\* re.match(r'^(\d{4})_\d+$', s)
MatchNumbered(s) ==
  /\ Len(s) >= 6
  /\ AllDigits(SubSeq(s, 1, 4))
  /\ s[5] = "_"
  /\ AllDigits(SubSeq(s, 6, Len(s)))

\* re.match(r'^([a-zA-Z_]+)_(\d{4})_\d+$', s): the last underscore ends the
\* four-digit group, the underscore before that group ends the name.
MatchNamed(s) ==
  LET u == RFind(s, "_") IN
  /\ u >= 7
  /\ u < Len(s)
  /\ AllDigits(SubSeq(s, u + 1, Len(s)))
  /\ AllDigits(SubSeq(s, u - 4, u - 1))
  /\ s[u - 5] = "_"
  /\ \A i \in 1..(u - 6) : IsAlpha(s[i]) \/ s[i] = "_"

\* group(1) and group(2) of the second pattern
NamedName(s) == SubSeq(s, 1, RFind(s, "_") - 6)

NamedNumber(s) == SubSeq(s, RFind(s, "_") - 4, RFind(s, "_") - 1)

ChapterKeyPrefix == <<"c", "h", "a", "p", "t", "e", "r", "_">>

\* EPUBExtractor._get_chapter_key
GetChapterKey(filename) ==
  LET base_name == SplitextRoot(filename) IN
  IF MatchNumbered(base_name) THEN ChapterKeyPrefix \o SubSeq(base_name, 1, 4)
  ELSE IF MatchNamed(base_name) THEN ChapterKeyPrefix \o NamedNumber(base_name)
  ELSE base_name

\* str.title(): a letter is upper-cased after a non-letter, lower-cased after
\* a letter.
TitleCase(s) ==
  [i \in 1..Len(s) |->
     IF ~IsAlpha(s[i]) THEN s[i]
     ELSE IF i > 1 /\ IsAlpha(s[i - 1]) THEN ToLower(s[i]) ELSE ToUpper(s[i])]

\* re.sub(r'\d+$', '', s)
RECURSIVE DropTrailingDigits(_)
DropTrailingDigits(s) ==
  IF s # <<>> /\ IsDigit(s[Len(s)])
  THEN DropTrailingDigits(SubSeq(s, 1, Len(s) - 1))
  ELSE s

\* re.sub(r'[_-]+', ' ', s)
RECURSIVE SeparatorsToSpace(_)
SeparatorsToSpace(s) ==
  IF s = <<>> THEN <<>>
  ELSE IF s[1] \in {"_", "-"}
       THEN IF Len(s) >= 2 /\ s[2] \in {"_", "-"}
            THEN SeparatorsToSpace(Tail(s))
            ELSE <<" ">> \o SeparatorsToSpace(Tail(s))
       ELSE <<s[1]>> \o SeparatorsToSpace(Tail(s))

\* [word for word in words if not word.isdigit()]
RECURSIVE NonDigitWords(_)
NonDigitWords(ws) ==
  IF ws = <<>> THEN <<>>
  ELSE IF AllDigits(ws[1]) THEN NonDigitWords(Tail(ws))
  ELSE <<ws[1]>> \o NonDigitWords(Tail(ws))

Untitled == <<"U", "n", "t", "i", "t", "l", "e", "d">>

ChapterWord == <<"C", "h", "a", "p", "t", "e", "r", " ">>

\* A variant of _normalize_chapter_name that returns the cleaned name as it
\* is, with no "Untitled" in its place when it is empty.
NormalizeChapterNameNoFallback(name) ==
  IF name = <<>> THEN Untitled
  ELSE LET n == SplitextRoot(name) IN
       IF MatchNumbered(n) THEN ChapterWord \o Fmt0(IntOf(SubSeq(n, 1, 4)), 2)
       ELSE IF MatchNamed(n)
       THEN TitleCase([i \in 1..Len(NamedName(n)) |->
                         IF NamedName(n)[i] = "_" THEN " " ELSE NamedName(n)[i]])
              \o <<" ">> \o Fmt0(IntOf(NamedNumber(n)), 2)
       ELSE Strip(Join(NonDigitWords(
              Words(SeparatorsToSpace(DropTrailingDigits(n)))), <<" ">>))

\* EPUBExtractor._normalize_chapter_name
NormalizeChapterName(name) ==
  IF name = <<>> THEN Untitled
  ELSE LET n == SplitextRoot(name) IN
       IF MatchNumbered(n) THEN ChapterWord \o Fmt0(IntOf(SubSeq(n, 1, 4)), 2)
       ELSE IF MatchNamed(n)
       THEN TitleCase([i \in 1..Len(NamedName(n)) |->
                         IF NamedName(n)[i] = "_" THEN " " ELSE NamedName(n)[i]])
              \o <<" ">> \o Fmt0(IntOf(NamedNumber(n)), 2)
       ELSE LET cleaned == Strip(Join(NonDigitWords(
                             Words(SeparatorsToSpace(DropTrailingDigits(n)))), <<" ">>))
            IN  IF cleaned = <<>> THEN Untitled ELSE cleaned

(***************************************************************************)
(* EPUBExtractor: the candidate tables of contents                         *)
(***************************************************************************)

\* Whether x occurs in the sequence s.
InSeq(x, s) == \E i \in 1..Len(s) : s[i] = x

\* list.sort() on strings: a stable insertion sort by code-point order.
RECURSIVE InsertString(_, _)
InsertString(sorted, x) ==
  IF sorted = <<>> THEN <<x>>
  ELSE IF StrLess(x, sorted[1]) THEN <<x>> \o sorted
  ELSE <<sorted[1]>> \o InsertString(Tail(sorted), x)

RECURSIVE SortStrings(_)
SortStrings(s) ==
  IF s = <<>> THEN <<>>
  ELSE InsertString(SortStrings(SubSeq(s, 1, Len(s) - 1)), s[Len(s)])

\* self.toc.sort(key=lambda x: x['file']): stable, so an entry goes after the
\* entries whose file is less than or equal to its own.
RECURSIVE InsertTocEntry(_, _)
InsertTocEntry(sorted, e) ==
  IF sorted = <<>> THEN <<e>>
  ELSE IF StrLess(e.file, sorted[1].file) THEN <<e>> \o sorted
  ELSE <<sorted[1]>> \o InsertTocEntry(Tail(sorted), e)

RECURSIVE SortTocByFile(_)
SortTocByFile(t) ==
  IF t = <<>> THEN <<>>
  ELSE InsertTocEntry(SortTocByFile(SubSeq(t, 1, Len(t) - 1)), t[Len(t)])

\* src.split('#')[0]
BeforeFragment(src) ==
  IF Find(src, "#") = 0 THEN src ELSE Slice(src, 1, Find(src, "#") - 1)

\* The navPoint loop of _parse_ncx: chapter_groups, a dict in insertion
\* order, as a sequence of [key, title, files, id].
RECURSIVE ChapterGroups(_, _, _)
ChapterGroups(nav_points, ncx_path, groups) ==
  IF nav_points = <<>> THEN groups
  ELSE LET nav_point == nav_points[1] IN
       IF ~nav_point.has_label \/ ~nav_point.has_content
       THEN ChapterGroups(Tail(nav_points), ncx_path, groups)
       ELSE LET file_path == ResolvePath(ncx_path, BeforeFragment(nav_point.src))
                filename == Basename(file_path)
                chapter_key == GetChapterKey(filename)
                chapter_name == NormalizeChapterName(filename)
            IN  IF \E g \in 1..Len(groups) : groups[g].key = chapter_key
                THEN LET g == CHOOSE k \in 1..Len(groups) : groups[k].key = chapter_key
                     IN  ChapterGroups(Tail(nav_points), ncx_path,
                           [groups EXCEPT ![g].files = Append(@, file_path)])
                ELSE ChapterGroups(Tail(nav_points), ncx_path,
                       Append(groups,
                         [key |-> chapter_key,
                          title |-> chapter_name,
                          files |-> <<file_path>>,
                          id |-> ChapterKeyPrefix \o StrOf(Len(groups) + 1)]))

\* The conversion of one group into a toc entry.
GroupEntry(chapter) ==
  LET files == SortStrings(chapter.files) IN
  [title |-> chapter.title,
   file |-> files[1],
   additional_files |-> Tail(files),
   id |-> chapter.id]

\* EPUBExtractor._parse_ncx: the value of self.toc after the call.  The
\* entries are appended to the list self.toc already holds and the whole list
\* is sorted; a read or decode error is caught and leaves self.toc as it was.
ParseNcx(toc, ncx_path, ncx) ==
  IF ncx_path = <<>> THEN toc
  ELSE IF ~ncx.readable THEN toc
  ELSE LET groups == ChapterGroups(ncx.nav_points, ncx_path, <<>>) IN
       SortTocByFile(toc \o [i \in 1..Len(groups) |-> GroupEntry(groups[i])])

\* A variant of _get_toc_from_html_files that leaves out the first file.
GetTocFromHtmlFilesSkipFirst(html_files) ==
  LET files == IF html_files = <<>> THEN <<>> ELSE Tail(SortStrings(html_files)) IN
  [i \in 1..Len(files) |->
     [title |-> ChapterWord \o Fmt0(i, 3),
      file |-> files[i],
      additional_files |-> <<>>,
      id |-> ChapterKeyPrefix \o Fmt0(i, 3)]]

\* A variant of _get_toc_from_html_files that takes the files in archive
\* order.
GetTocFromHtmlFilesUnsorted(html_files) ==
  [i \in 1..Len(html_files) |->
     [title |-> ChapterWord \o Fmt0(i, 3),
      file |-> html_files[i],
      additional_files |-> <<>>,
      id |-> ChapterKeyPrefix \o Fmt0(i, 3)]]

\* EPUBExtractor._get_toc_from_html_files
GetTocFromHtmlFiles(html_files) ==
  LET files == SortStrings(html_files) IN
  [i \in 1..Len(files) |->
     [title |-> ChapterWord \o Fmt0(i, 3),
      file |-> files[i],
      additional_files |-> <<>>,
      id |-> ChapterKeyPrefix \o Fmt0(i, 3)]]

\* s.lower()
Lower(s) == [i \in 1..Len(s) |-> ToLower(s[i])]

\* f.lower().endswith(('.htm', '.html', '.xhtml'))
IsHtmlName(f) ==
  LET lower == Lower(f) IN
  \/ EndsWith(lower, <<".", "h", "t", "m">>)
  \/ EndsWith(lower, <<".", "h", "t", "m", "l">>)
  \/ EndsWith(lower, <<".", "x", "h", "t", "m", "l">>)

\* [x for x in s if Keep(x)] for the namelist filter
RECURSIVE HtmlFilesOf(_)
HtmlFilesOf(namelist) ==
  IF namelist = <<>> THEN <<>>
  ELSE IF IsHtmlName(namelist[1]) THEN <<namelist[1]>> \o HtmlFilesOf(Tail(namelist))
  ELSE HtmlFilesOf(Tail(namelist))

\* A dict with key k set to v.
DictSet(d, k, v) == [x \in (DOMAIN d) \cup {k} |-> IF x = k THEN v ELSE d[x]]

EmptyDict == [x \in {} |-> <<>>]

NcxMediaType == "application/x-dtbncx+xml"

\* The manifest loop of extract_text over the items from position i: the
\* fields [manifest, id_to_href, ncx_path] after it.
RECURSIVE ParseManifest(_, _, _, _)
ParseManifest(items, i, opf_path, fields) ==
  IF i > Len(items) THEN fields
  ELSE LET item == items[i]
           resolved_path == ResolvePath(opf_path, item.href)
       IN  ParseManifest(items, i + 1, opf_path,
             [manifest |-> DictSet(fields.manifest, item.id,
                             [href |-> resolved_path, media_type |-> item.media_type]),
              id_to_href |-> DictSet(fields.id_to_href, item.id, resolved_path),
              ncx_path |-> IF item.media_type = NcxMediaType
                           THEN resolved_path ELSE fields.ncx_path])

\* The spine candidate: one chapter per itemref that resolves, titled by the
\* index enumerate() gives the itemref in the whole spine.
RECURSIVE SpineToc(_, _, _)
SpineToc(spine, i, id_to_href) ==
  IF i > Len(spine) THEN <<>>
  ELSE IF spine[i] \in DOMAIN id_to_href
       THEN <<[title |-> ChapterWord \o Fmt0(i, 3),
               file |-> id_to_href[spine[i]],
               additional_files |-> <<>>,
               id |-> ChapterKeyPrefix \o Fmt0(i, 3)]>>
              \o SpineToc(spine, i + 1, id_to_href)
       ELSE SpineToc(spine, i + 1, id_to_href)

(***************************************************************************)
(* EPUBExtractor.extract_text: selection and rendering                     *)
(***************************************************************************)

\* [toc for toc in possible_tocs if toc is not None]
RECURSIVE NonEmptyTocs(_)
NonEmptyTocs(cands) ==
  IF cands = <<>> THEN <<>>
  ELSE IF cands[1].toc # <<>> THEN <<cands[1]>> \o NonEmptyTocs(Tail(cands))
  ELSE NonEmptyTocs(Tail(cands))

\* valid_tocs.sort(key=lambda x: len(x[1]), reverse=True): stable, so equal
\* lengths keep their order.
RECURSIVE InsertByLength(_, _)
InsertByLength(sorted, c) ==
  IF sorted = <<>> THEN <<c>>
  ELSE IF Len(c.toc) > Len(sorted[1].toc) THEN <<c>> \o sorted
  ELSE <<sorted[1]>> \o InsertByLength(Tail(sorted), c)

RECURSIVE SortByLength(_)
SortByLength(cands) ==
  IF cands = <<>> THEN <<>>
  ELSE InsertByLength(SortByLength(SubSeq(cands, 1, Len(cands) - 1)), cands[Len(cands)])

preferred_order == <<"Spine TOC", "NCX TOC", "HTML Files TOC">>

\* preferred_order.index(x[0])
PreferenceIndex(name) == CHOOSE i \in 1..Len(preferred_order) : preferred_order[i] = name

\* valid_tocs.sort(key=lambda x: preferred_order.index(x[0])): stable, over
\* the whole list.
RECURSIVE InsertByPreference(_, _)
InsertByPreference(sorted, c) ==
  IF sorted = <<>> THEN <<c>>
  ELSE IF PreferenceIndex(c.name) < PreferenceIndex(sorted[1].name) THEN <<c>> \o sorted
  ELSE <<sorted[1]>> \o InsertByPreference(Tail(sorted), c)

RECURSIVE SortByPreference(_)
SortByPreference(cands) ==
  IF cands = <<>> THEN <<>>
  ELSE InsertByPreference(SortByPreference(SubSeq(cands, 1, Len(cands) - 1)),
                          cands[Len(cands)])

\* A variant of the ordering that, on a tie, puts the least preferred
\* candidate first.
OrderTocsLeastPreferred(valid_tocs) ==
  LET by_length == SortByLength(valid_tocs)
      by_preference == SortByPreference(by_length)
  IN  IF Len(by_length) > 1 /\ Len(by_length[1].toc) = Len(by_length[2].toc)
      THEN [i \in 1..Len(by_preference) |->
              by_preference[Len(by_preference) + 1 - i]]
      ELSE by_length

\* The order of valid_tocs when extract_text takes valid_tocs[0]: by length,
\* and when the first two lengths are equal the whole list by preference.
OrderTocs(valid_tocs) ==
  LET by_length == SortByLength(valid_tocs) IN
  IF Len(by_length) > 1 /\ Len(by_length[1].toc) = Len(by_length[2].toc)
  THEN SortByPreference(by_length)
  ELSE by_length

\* The texts of the files of one chapter that are in the archive, can be read
\* and render to a non-empty text.
RECURSIVE ChapterContent(_, _)
ChapterContent(chapter_files, doc) ==
  IF chapter_files = <<>> THEN <<>>
  ELSE LET file_path == chapter_files[1] IN
       IF /\ InSeq(file_path, doc.namelist)
          /\ file_path \notin doc.unreadable
          /\ doc.text[file_path] # <<>>
       THEN <<doc.text[file_path]>> \o ChapterContent(Tail(chapter_files), doc)
       ELSE ChapterContent(Tail(chapter_files), doc)

\* A variant of the chapter loop that leaves out the chapters without text.
RenderChaptersDropEmpty(toc, doc) ==
  LET all == [i \in 1..Len(toc) |->
                [title |-> toc[i].title,
                 content |-> Join(ChapterContent(<<toc[i].file>> \o toc[i].additional_files,
                                                 doc), <<"\n", "\n">>),
                 file |-> toc[i].file]]
      RECURSIVE Keep(_)
      Keep(s) == IF s = <<>> THEN <<>>
                 ELSE IF s[1].content = <<>> THEN Keep(Tail(s))
                 ELSE <<s[1]>> \o Keep(Tail(s))
  IN  Keep(all)

\* The chapter loop of extract_text: one record per chapter of self.toc.
RenderChapters(toc, doc) ==
  [i \in 1..Len(toc) |->
     [title |-> toc[i].title,
      content |-> Join(ChapterContent(<<toc[i].file>> \o toc[i].additional_files, doc),
                       <<"\n", "\n">>),
      file |-> toc[i].file]]

\* EPUBExtractor.__init__
NewExtractor ==
  [container_path |-> <<"M", "E", "T", "A", "-", "I", "N", "F", "/",
                        "c", "o", "n", "t", "a", "i", "n", "e", "r", ".", "x", "m", "l">>,
   root_dir |-> <<>>,
   opf_path |-> <<>>,
   ncx_path |-> <<>>,
   manifest |-> EmptyDict,
   spine |-> <<>>,
   toc |-> <<>>,
   id_to_href |-> EmptyDict]

\* A variant of the except clause that re-raises the error.
FailedRaising(self, error) ==
  [self |-> self, returned |-> <<>>, raised |-> TRUE, error |-> error,
   ncx_toc |-> <<>>, spine_toc |-> <<>>, html_toc |-> <<>>, selected |-> "none"]

\* What a call of extract_text that ends in its except clause leaves: the
\* empty list returned, no exception raised to the caller.
Failed(self, error) ==
  [self |-> self, returned |-> <<>>, raised |-> FALSE, error |-> error,
   ncx_toc |-> <<>>, spine_toc |-> <<>>, html_toc |-> <<>>, selected |-> "none"]

\* extract_text from the selection on: valid_tocs is ordered, its first
\* entry becomes self.toc and its chapters are rendered and returned; with no
\* valid candidate the ValueError raised ends in the except clause.
SelectAndRender(self, ncx_toc, spine_toc, html_toc, valid_tocs, doc) ==
  IF valid_tocs = <<>>
  THEN [Failed(self, "no valid toc") EXCEPT !.ncx_toc = ncx_toc,
                                            !.spine_toc = spine_toc,
                                            !.html_toc = html_toc]
  ELSE [self |-> [self EXCEPT !.toc = OrderTocs(valid_tocs)[1].toc],
        returned |-> RenderChapters(OrderTocs(valid_tocs)[1].toc, doc),
        raised |-> FALSE,
        error |-> "none",
        ncx_toc |-> ncx_toc,
        spine_toc |-> spine_toc,
        html_toc |-> html_toc,
        selected |-> OrderTocs(valid_tocs)[1].name]

\* possible_tocs and valid_tocs of the three candidates.
ChooseToc(self, ncx_toc, spine_toc, html_toc, doc) ==
  SelectAndRender(self, ncx_toc, spine_toc, html_toc,
                  NonEmptyTocs(<< [name |-> "Spine TOC", toc |-> spine_toc],
                                  [name |-> "NCX TOC", toc |-> ncx_toc],
                                  [name |-> "HTML Files TOC", toc |-> html_toc] >>),
                  doc)

\* The three candidates: self is the extractor after _parse_ncx, if it was
\* called (ncx_parsed); self.toc is then the list _parse_ncx worked on.
BuildCandidates(self, ncx_parsed, doc) ==
  ChooseToc(self,
            IF ncx_parsed THEN self.toc ELSE <<>>,
            IF self.spine # <<>> THEN SpineToc(self.spine, 1, self.id_to_href) ELSE <<>>,
            GetTocFromHtmlFiles(HtmlFilesOf(doc.namelist)),
            doc)

\* extract_text after the manifest and the spine are read: _parse_ncx is
\* called when self.ncx_path is set and names a member of the archive.
ReadNcx(self, doc) ==
  IF self.ncx_path # <<>> /\ InSeq(self.ncx_path, doc.namelist)
  THEN BuildCandidates([self EXCEPT !.toc = ParseNcx(self.toc, self.ncx_path, doc.ncx)],
                       TRUE, doc)
  ELSE BuildCandidates(self, FALSE, doc)

\* The fields the manifest loop and the spine set.
SetPackageFields(self, fields, spine) ==
  [self EXCEPT !.manifest = fields.manifest,
               !.id_to_href = fields.id_to_href,
               !.ncx_path = fields.ncx_path,
               !.spine = spine]

\* extract_text from the read of the OPF on.
ReadPackage(self, doc) ==
  IF ~InSeq(self.opf_path, doc.namelist) \/ ~doc.opf_parses
  THEN Failed(self, "opf")
  ELSE ReadNcx(SetPackageFields(self,
                                ParseManifest(doc.manifest, 1, self.opf_path,
                                              [manifest |-> EmptyDict,
                                               id_to_href |-> self.id_to_href,
                                               ncx_path |-> self.ncx_path]),
                                doc.spine),
               doc)

\* EPUBExtractor.extract_text on the archive doc, called on an extractor
\* whose fields are self: the fields after the call, the value returned and
\* the candidates it built.
ExtractText(self, doc) ==
  IF ~InSeq(self.container_path, doc.namelist) \/ ~doc.container_parses
  THEN Failed(self, "container")
  ELSE IF ~doc.has_rootfile
  THEN Failed(self, "rootfile")
  ELSE ReadPackage([self EXCEPT !.opf_path = doc.full_path,
                                !.root_dir = Dirname(doc.full_path)],
                   doc)

(***************************************************************************)
(* The archives the extractor is run on                                    *)
(***************************************************************************)

\* Bounds of the archives: the navigation points of an NCX and the itemrefs
\* of a spine.
MaxNavPoints == 3

MaxSpine == 2

\* The directory of the package inside the archive, and its files.
PackageDir == <<"O", "P", "S">>

OpfHref == <<"O", "P", "S", "/", "c", "o", "n", "t", "e", "n", "t", ".", "o", "p", "f">>

NcxHref == <<"t", "o", "c", ".", "n", "c", "x">>

\* The content documents an archive may hold: manifest id and href (relative
\* to the package directory).
ContentFiles ==
  << [id |-> "c1", href |-> <<"0", "0", "0", "1", "_", "0", "0", "0", "0", ".", "h", "t", "m", "l">>],
     [id |-> "c2", href |-> <<"0", "0", "0", "1", "_", "0", "0", "0", "1", ".", "h", "t", "m", "l">>],
     [id |-> "c3", href |-> <<"0", "0", "0", "2", "_", "0", "0", "0", "0", ".", "h", "t", "m", "l">>] >>

ContentIndex == 1..Len(ContentFiles)

\* The idrefs a spine may hold: two content documents.  The manifest declares
\* the documents the archive holds, so the idref of a document that is not in
\* the archive is one that no manifest item declares.
SpineIds == {"c1", "c3"}

\* The path of a package file inside the archive.
InPackage(href) == PackageDir \o <<"/">> \o href

\* The sequences over S of length at most n.
SeqsUpTo(S, n) == UNION {[1..k -> S] : k \in 0..n}

\* The elements of the index set S in increasing order.
RECURSIVE Ascending(_)
Ascending(S) ==
  IF S = {} THEN <<>>
  ELSE LET m == CHOOSE x \in S : \A y \in S : x <= y
       IN  <<m>> \o Ascending(S \ {m})

\* The text a content document renders to (a stand-in for its prose).
ProseOf(i) == <<"t", "e", "x", "t", " ">> \o StrOf(i)

\* An archive: its name list, container and package, manifest and spine, its
\* NCX and the text of its content documents.  The name list holds the content
\* documents in the order they were added to the archive, here the last first.
\*   stage  : which part of the package metadata is broken, or "ok"
\*   present: the content documents in the archive (indices of ContentFiles)
\*   ncx    : "none" (not declared), "missing" (declared, not in the archive),
\*            "unreadable" (in the archive, cannot be decoded), "ok"
\*   nav    : the navigation points of the NCX (indices of ContentFiles)
\*   fault  : <<kind, i>>: content document i cannot be read ("ioerr") or
\*            renders to nothing ("blank"); <<"none", 0>> for none
MakeDoc(stage, present, ncx, nav, spine, fault) ==
  LET files == Ascending(present)
      contents == [k \in 1..Len(files) |->
                     InPackage(ContentFiles[files[Len(files) + 1 - k]].href)]
      container == IF stage = "no_container" THEN <<>>
                   ELSE <<NewExtractor.container_path>>
      opf == IF stage = "no_opf" THEN <<>> ELSE <<OpfHref>>
      ncx_file == IF ncx \in {"unreadable", "ok"} THEN <<InPackage(NcxHref)>> ELSE <<>>
      ncx_item == IF ncx = "none" THEN <<>>
                  ELSE <<[id |-> "ncx", href |-> NcxHref, media_type |-> NcxMediaType]>>
  IN  [namelist |-> container \o opf \o ncx_file \o contents,
       container_parses |-> stage # "bad_container",
       has_rootfile |-> stage # "no_rootfile",
       full_path |-> OpfHref,
       opf_parses |-> stage # "bad_opf",
       manifest |-> ncx_item \o
                    [k \in 1..Len(files) |->
                       [id |-> ContentFiles[files[k]].id,
                        href |-> ContentFiles[files[k]].href,
                        media_type |-> "application/xhtml+xml"]],
       spine |-> spine,
       ncx |-> [readable |-> ncx = "ok",
                nav_points |-> [k \in 1..Len(nav) |->
                                  [has_label |-> TRUE, has_content |-> TRUE,
                                   src |-> ContentFiles[nav[k]].href]]],
       unreadable |-> IF fault[1] = "ioerr"
                      THEN {InPackage(ContentFiles[fault[2]].href)} ELSE {},
       text |-> [f \in {InPackage(ContentFiles[i].href) : i \in present} |->
                   LET i == CHOOSE j \in present : InPackage(ContentFiles[j].href) = f
                   IN  IF fault = <<"blank", i>> THEN <<>> ELSE ProseOf(i)]]

Stages == {"no_container", "bad_container", "no_rootfile", "no_opf", "bad_opf"}

\* The archives with broken package metadata: any content documents, no
\* NCX and no spine.
BrokenDocs ==
  {MakeDoc(stage, present, "none", <<>>, <<>>, <<"none", 0>>) :
     stage \in Stages, present \in SUBSET ContentIndex}

(***************************************************************************)
(* AudioConverter._split_into_chunks                                       *)
(***************************************************************************)

\* The loop over the sentences of a paragraph longer than max_chars, and the
\* append of the last current_sentence after it.
RECURSIVE SentenceLoop(_, _, _, _)
SentenceLoop(sentences, current_sentence, chunks, max_chars) ==
  IF sentences = <<>>
  THEN IF current_sentence # <<>> THEN Append(chunks, current_sentence) ELSE chunks
  ELSE LET stripped == Strip(Head(sentences))
           sent == IF EndsWith(stripped, <<".">>) THEN stripped
                   ELSE Append(stripped, ".")
       IN  IF stripped = <<>>
           THEN SentenceLoop(Tail(sentences), current_sentence, chunks, max_chars)
           ELSE IF Len(current_sentence) + Len(sent) <= max_chars
           THEN SentenceLoop(Tail(sentences),
                             IF current_sentence # <<>>
                             THEN current_sentence \o <<" ">> \o sent ELSE sent,
                             chunks, max_chars)
           ELSE SentenceLoop(Tail(sentences), sent,
                             IF current_sentence # <<>>
                             THEN Append(chunks, current_sentence) ELSE chunks,
                             max_chars)

\* The loop over the paragraphs, and the append of the last current_chunk
\* after it.
RECURSIVE ParagraphLoop(_, _, _, _)
ParagraphLoop(paragraphs, current_chunk, chunks, max_chars) ==
  IF paragraphs = <<>>
  THEN IF current_chunk # <<>> THEN Append(chunks, current_chunk) ELSE chunks
  ELSE LET para == Strip(Head(paragraphs)) IN
       IF para = <<>>
       THEN ParagraphLoop(Tail(paragraphs), current_chunk, chunks, max_chars)
       ELSE IF Len(para) > max_chars
       THEN ParagraphLoop(Tail(paragraphs), current_chunk,
                          SentenceLoop(SplitOn(para, <<".", " ">>), <<>>, chunks,
                                       max_chars),
                          max_chars)
       ELSE IF current_chunk # <<>> /\ Len(current_chunk) + Len(para) + 2 > max_chars
       THEN ParagraphLoop(Tail(paragraphs), para, Append(chunks, current_chunk),
                          max_chars)
       ELSE ParagraphLoop(Tail(paragraphs),
                          IF current_chunk # <<>>
                          THEN current_chunk \o <<"\n", "\n">> \o para ELSE para,
                          chunks, max_chars)

\* _split_into_chunks(text, max_chars)
SplitIntoChunks(text, max_chars) ==
  IF Len(text) <= max_chars THEN <<text>>
  ELSE ParagraphLoop(SplitOn(text, <<"\n", "\n">>), <<>>, <<>>, max_chars)

(***************************************************************************)
(* PDFExtractor                                                            *)
(***************************************************************************)

\* The character classes of CHAPTER_PATTERNS under re.IGNORECASE: \s, \d,
\* [IVXLCDM] and [A-Z].
SpaceClass == {" ", "\n", "\t"}

DigitClass == {"0", "1", "2", "3", "4", "5", "6", "7", "8", "9"}

LetterClass == {Ascii[i] : i \in 34..59} \cup {Ascii[i] : i \in 66..91}

RomanClass ==
  {"I", "V", "X", "L", "C", "D", "M", "i", "v", "x", "l", "c", "d", "m"}

\* text.lower() for a text that may hold line breaks.
LowerText(s) == [i \in 1..Len(s) |-> IF s[i] \in LetterClass THEN ToLower(s[i]) ELSE s[i]]

\* The position of the last character of the longest run of characters of
\* class that starts at position p (p - 1 when the run is empty): what a
\* greedy repetition of the class consumes.
RunEnd(s, p, class) ==
  LET stops == {i \in p..Len(s) : s[i] \notin class}
  IN  IF stops = {} THEN Len(s)
      ELSE (CHOOSE i \in stops : \A j \in stops : i <= j) - 1

\* The greatest position e of from..to at which $ matches after e characters
\* (end of the text, or just before a line break); 0 when there is none.
LineEndIn(s, from, to) ==
  LET ends == {e \in from..to : e = Len(s) \/ (e < Len(s) /\ s[e + 1] = "\n")}
  IN  IF ends = {} THEN 0 ELSE CHOOSE e \in ends : \A f \in ends : f <= e

\* The literal words of CHAPTER_PATTERNS 1, 5, 6 and 7 (in ASCII: the
\* alternatives with an accented letter match no text of the model).
PatternWord(k) ==
  CASE k = 1 -> <<"c", "h", "a", "p", "t", "e", "r">>
    [] k = 5 -> <<"c", "a", "p", "i", "t", "u", "l", "o">>
    [] k = 6 -> <<"p", "a", "r", "t", "e">>
    [] k = 7 -> <<"s", "e", "c", "c", "i", "o", "n">>

\* re.match of CHAPTER_PATTERNS[k - 1] at position p of s, with
\* re.IGNORECASE (and re.MULTILINE for $): the position of the last character
\* matched, 0 when the pattern does not match there.  Every pattern begins
\* with ^\s*, and what follows begins with a character that is no space, so
\* the leading \s* consumes the whole run of spaces.
MatchAt(k, s, p) ==
  LET b == RunEnd(s, p, SpaceClass) + 1 IN
  IF k \in {1, 5, 6, 7}
  THEN LET a == b + Len(PatternWord(k))
           ws == RunEnd(s, a, SpaceClass)
           e == RunEnd(s, ws + 1, IF k = 6 THEN RomanClass ELSE DigitClass)
       IN  IF a - 1 <= Len(s) /\ LowerText(Slice(s, b, a - 1)) = PatternWord(k)
              /\ ws >= a /\ e > ws
           THEN e ELSE 0
  ELSE IF k \in {2, 3}
  THEN LET q == RunEnd(s, b, IF k = 2 THEN DigitClass ELSE RomanClass)
       IN  IF q >= b THEN LineEndIn(s, q, RunEnd(s, q + 1, SpaceClass)) ELSE 0
  ELSE IF b <= Len(s) /\ s[b] \in LetterClass
       THEN LineEndIn(s, b + 1, RunEnd(s, b + 1, LetterClass \cup SpaceClass))
       ELSE 0

\* [m.group(0).strip() for m in re.finditer(CHAPTER_PATTERNS[k - 1], s,
\* re.IGNORECASE | re.MULTILINE)], scanning from position p: ^ matches at the
\* start of the text and after each line break, and the scan goes on after
\* the end of a match.
RECURSIVE FindIter(_, _, _)
FindIter(k, s, p) ==
  IF p > Len(s) THEN <<>>
  ELSE LET e == IF p = 1 \/ s[p - 1] = "\n" THEN MatchAt(k, s, p) ELSE 0 IN
       IF e = 0 THEN FindIter(k, s, p + 1)
       ELSE <<Strip(Slice(s, p, e))>> \o FindIter(k, s, e + 1)

\* keyword in text_lower
Contains(s, w) == \E i \in 1..(Len(s) - Len(w) + 1) : SubSeq(s, i, i + Len(w) - 1) = w

\* chapter_keywords (in ASCII)
chapter_keywords ==
  { <<"c", "h", "a", "p", "t", "e", "r">>, <<"c", "a", "p", "i", "t", "u", "l", "o">>,
    <<"p", "a", "r", "t">>, <<"p", "a", "r", "t", "e">>,
    <<"s", "e", "c", "t", "i", "o", "n">>, <<"s", "e", "c", "c", "i", "o", "n">>,
    <<"b", "o", "o", "k">>, <<"l", "i", "b", "r", "o">> }

\* PDFExtractor._is_chapter_title
IsChapterTitle(text) ==
  IF text = <<>> \/ Len(text) > 100 THEN FALSE
  ELSE LET text_lower == LowerText(text) IN
       \/ \E k \in 1..7 : MatchAt(k, text_lower, 1) # 0
       \/ \E keyword \in chapter_keywords :
            Contains(text_lower, keyword) /\ Len(text_lower) < 50

\* [line.strip() for line in page_text.split('\n') if line.strip()]
StrippedLines(page_text) ==
  LET lines == SplitOn(page_text, <<"\n">>)
      stripped == [j \in 1..Len(lines) |-> Strip(lines[j])]
  IN  SelectSeq(stripped, LAMBDA line : line # <<>>)

\* get_chapters, the loop over lines[:5]: the first line that is a chapter
\* title is recorded with the page.
FirstLinesTitle(found, lines, i) ==
  LET first == Slice(lines, 1, IF Len(lines) < 5 THEN Len(lines) ELSE 5)
      hits == {j \in 1..Len(first) : IsChapterTitle(first[j])}
  IN  IF hits = {} THEN found
      ELSE [titles |-> Append(found.titles,
                              first[CHOOSE j \in hits : \A h \in hits : j <= h]),
            pages |-> Append(found.pages, i)]

\* get_chapters, the loop over the matches of one pattern: a match that is
\* not empty and not yet a title is recorded with the page.
RECURSIVE AddMatches(_, _, _)
AddMatches(found, matches, i) ==
  IF matches = <<>> THEN found
  ELSE LET line == Head(matches) IN
       AddMatches(IF line # <<>> /\ ~InSeq(line, found.titles)
                  THEN [titles |-> Append(found.titles, line),
                        pages |-> Append(found.pages, i)]
                  ELSE found,
                  Tail(matches), i)

\* get_chapters, the loop over CHAPTER_PATTERNS from pattern k on.
RECURSIVE ScanPatterns(_, _, _, _)
ScanPatterns(found, k, page_text, i) ==
  IF k > 7 THEN found
  ELSE ScanPatterns(AddMatches(found, FindIter(k, page_text, 1), i),
                    k + 1, page_text, i)

\* get_chapters, the loop over self.page_texts from page n on (pages are
\* numbered from 0, as in the code).
RECURSIVE ScanPages(_, _, _)
ScanPages(found, page_texts, n) ==
  IF n >= Len(page_texts) THEN found
  ELSE LET page_text == page_texts[n + 1] IN
       IF Strip(page_text) = <<>> THEN ScanPages(found, page_texts, n + 1)
       ELSE ScanPages(ScanPatterns(FirstLinesTitle(found, StrippedLines(page_text), n),
                                   1, page_text, n),
                      page_texts, n + 1)

\* "Página " (in ASCII) and "Documento completo"
PageWord == <<"P", "a", "g", "i", "n", "a", " ">>

WholeDocument ==
  <<"D", "o", "c", "u", "m", "e", "n", "t", "o", " ",
    "c", "o", "m", "p", "l", "e", "t", "o">>

\* A variant of the page titles that numbers the pages from 0.
PageTitlesFromZero(n) == [i \in 1..n |-> PageWord \o StrOf(i - 1)]

\* [f"Página {i+1}" for i in range(n)]
PageTitles(n) == [i \in 1..n |-> PageWord \o StrOf(i)]

\* A newly constructed PDFExtractor.
NewPdfExtractor == [chapter_titles |-> <<>>, chapter_pages |-> <<>>, page_texts |-> <<>>]

\* PDFExtractor.get_chapters on a file: the fields afterwards and the list
\* returned.  A file that cannot be opened leaves the fields as they were;
\* a page whose text cannot be read ends the first loop with the fields
\* reset and the texts read so far.
GetChapters(self, doc) ==
  IF ~doc.opens THEN [self |-> self, returned |-> <<WholeDocument>>]
  ELSE IF doc.unreadable # {}
  THEN LET bad == CHOOSE i \in doc.unreadable : \A j \in doc.unreadable : i <= j
       IN  [self |-> [chapter_titles |-> <<>>, chapter_pages |-> <<>>,
                      page_texts |-> Slice(doc.pages, 1, bad - 1)],
            returned |-> PageTitles(Len(doc.pages))]
  ELSE LET found == ScanPages([titles |-> <<>>, pages |-> <<>>], doc.pages, 0)
       IN  [self |-> [chapter_titles |-> found.titles, chapter_pages |-> found.pages,
                      page_texts |-> doc.pages],
            returned |-> IF found.titles # <<>> THEN found.titles
                         ELSE PageTitles(Len(doc.pages))]

\* extract_chapter, lines 127-132: on the first page of the chapter, the text
\* after the first line that equals the title.
AfterTitleLine(page_text, title) ==
  LET lines == SplitOn(page_text, <<"\n">>)
      hits == {j \in 1..Len(lines) : Strip(lines[j]) = Strip(title)}
  IN  IF hits = {} THEN page_text
      ELSE Join(Slice(lines, (CHOOSE j \in hits : \A h \in hits : j <= h) + 1, Len(lines)),
                <<"\n">>)

\* extract_chapter, the loop over range(start_page, end_page) from page i on:
\* text_parts.
RECURSIVE ChapterParts(_, _, _, _, _)
ChapterParts(pages, i, start_page, end_page, title) ==
  IF i >= end_page THEN <<>>
  ELSE LET page_text == pages[i + 1] IN
       (IF page_text = <<>> THEN <<>>
        ELSE IF i = start_page THEN <<AfterTitleLine(page_text, title)>>
        ELSE <<page_text>>)
       \o ChapterParts(pages, i + 1, start_page, end_page, title)

\* PDFExtractor.extract_chapter(file_path, chapter_index): the fields
\* afterwards, and the text returned or the exception raised.
ExtractChapter(self, doc, chapter_index) ==
  LET known == IF self.chapter_titles = <<>> THEN GetChapters(self, doc).self ELSE self
      titles == known.chapter_titles
      chapter_pages == known.chapter_pages
      Raise == [self |-> known, raised |-> TRUE, value |-> <<>>]
      Return(text) == [self |-> known, raised |-> FALSE, value |-> text]
  IN  IF ~doc.opens THEN Raise
      ELSE IF titles = <<>>
      THEN IF 0 <= chapter_index /\ chapter_index < Len(doc.pages)
           THEN IF (chapter_index + 1) \in doc.unreadable THEN Raise
                ELSE Return(doc.pages[chapter_index + 1])
           ELSE Return(<<>>)
      ELSE IF chapter_index >= Len(chapter_pages) THEN Raise
      ELSE LET start_page == chapter_pages[chapter_index + 1]
               end_page == IF chapter_index + 1 < Len(chapter_pages)
                           THEN chapter_pages[chapter_index + 2]
                           ELSE Len(doc.pages)
           IN  IF \E i \in (start_page + 1)..end_page : i \in doc.unreadable THEN Raise
               ELSE Return(Join(ChapterParts(doc.pages, start_page, start_page, end_page,
                                              titles[chapter_index + 1]),
                                <<"\n", "\n">>))

\* The lines of the pages: prose, a line with a chapter keyword that matches
\* no pattern, a line that begins with a match of pattern 6, and a line that
\* is a match of patterns 3 and 4 as a whole.
PdfLines ==
  { <<"x", "1", ".">>,
    <<"p", "a", "r", "t", " ", "2">>,
    <<"p", "a", "r", "t", "e", " ", "I", ".">>,
    <<"I", "V">> }

\* A page with five lines of prose and a keyword line after them.
LongPage ==
  LET prose == <<"x", "1", ".">> IN
  Join(<<prose, prose, prose, prose, prose, <<"p", "a", "r", "t", " ", "2">> >>, <<"\n">>)

\* The page texts: the empty page, the pages of one line, the pages of two
\* lines that begin with a heading, and the long page.
PageTexts ==
  {<<>>, LongPage} \cup PdfLines
    \cup {l \o <<"\n">> \o m :
            l \in {<<"p", "a", "r", "t", "e", " ", "I", ".">>, <<"I", "V">>},
            m \in {<<"x", "1", ".">>, <<"I", "V">>}}

\* The greatest number of pages of a file.
MaxPages == 2

\* The PDF files: those whose pages can all be read, a file that cannot be
\* opened, and files with one page whose text cannot be read.
PdfDocs ==
  {[opens |-> TRUE, pages |-> pages, unreadable |-> {}] :
     pages \in SeqsUpTo(PageTexts, MaxPages)}
  \cup {[opens |-> FALSE, pages |-> <<>>, unreadable |-> {}]}
  \cup UNION {{[opens |-> TRUE, pages |-> pages, unreadable |-> {i}] :
                  i \in 1..Len(pages)} :
                pages \in SeqsUpTo({<<"x", "1", ".">>, <<"I", "V">>}, MaxPages)}

(***************************************************************************)
(* BaseExtractor.clean_text                                                *)
(***************************************************************************)

\* re.sub(r'\s*[=_-]+\s*', ' ', s): the leftmost match starts at a separator
\* or at a run of spaces that a separator follows, and takes the spaces, the
\* separators and the spaces after them.
RECURSIVE SubSeparators(_)
SubSeparators(s) ==
  IF s = <<>> THEN <<>>
  ELSE LET w == RunEnd(s, 1, SpaceClass)
           q == RunEnd(s, w + 1, {"=", "_", "-"})
       IN  IF q > w
           THEN <<" ">> \o SubSeparators(Slice(s, RunEnd(s, q + 1, SpaceClass) + 1, Len(s)))
           ELSE <<s[1]>> \o SubSeparators(Tail(s))

\* re.sub(r'\s{n,}', ' ', s) for n = 2 and re.sub(r'\s+', ' ', s) for n = 1:
\* each run of at least n spaces becomes one blank.
RECURSIVE SubSpaceRuns(_, _)
SubSpaceRuns(s, n) ==
  IF s = <<>> THEN <<>>
  ELSE LET w == RunEnd(s, 1, SpaceClass) IN
       IF w >= n THEN <<" ">> \o SubSpaceRuns(Slice(s, w + 1, Len(s)), n)
       ELSE IF w >= 1 THEN SubSeq(s, 1, w) \o SubSpaceRuns(Slice(s, w + 1, Len(s)), n)
       ELSE <<s[1]>> \o SubSpaceRuns(Tail(s), n)

\* A variant of the punctuation substitution that replaces by r'\1'.
RECURSIVE SubPunctuationNoSpace(_)
SubPunctuationNoSpace(s) ==
  IF s = <<>> THEN <<>>
  ELSE LET w == RunEnd(s, 1, SpaceClass) IN
       IF w < Len(s) /\ s[w + 1] \in {".", ",", ";", ":", "!", "?"}
       THEN <<s[w + 1]>>
              \o SubPunctuationNoSpace(Slice(s, RunEnd(s, w + 2, SpaceClass) + 1, Len(s)))
       ELSE <<s[1]>> \o SubPunctuationNoSpace(Tail(s))

\* re.sub(r'\s*([.,;:!?])\s*', r'\1 ', s)
RECURSIVE SubPunctuation(_)
SubPunctuation(s) ==
  IF s = <<>> THEN <<>>
  ELSE LET w == RunEnd(s, 1, SpaceClass) IN
       IF w < Len(s) /\ s[w + 1] \in {".", ",", ";", ":", "!", "?"}
       THEN <<s[w + 1], " ">>
              \o SubPunctuation(Slice(s, RunEnd(s, w + 2, SpaceClass) + 1, Len(s)))
       ELSE <<s[1]>> \o SubPunctuation(Tail(s))

\* clean_text, lines 49-59: a stripped line is kept unless it is empty, is
\* made of characters that are no letters and no digits (which covers the
\* lines of separators), or has a character four times in a row.
KeepLine(line) ==
  /\ line # <<>>
  /\ \E i \in 1..Len(line) : line[i] \in LetterClass \cup DigitClass
  /\ ~\E i \in 1..(Len(line) - 3) :
        line[i] # "\n" /\ line[i + 1] = line[i] /\ line[i + 2] = line[i] /\ line[i + 3] = line[i]

\* clean_text, lines 45-65: the lines kept, each stripped and cleaned.
CleanLines(text) ==
  LET split == SplitOn(text, <<"\n">>)
      stripped == [j \in 1..Len(split) |-> Strip(split[j])]
      kept == SelectSeq(stripped, KeepLine)
  IN  [j \in 1..Len(kept) |-> SubSpaceRuns(SubSeparators(kept[j]), 2)]

\* BaseExtractor.clean_text
CleanText(text) ==
  IF text = <<>> THEN <<>>
  ELSE Strip(SubSpaceRuns(
         SubPunctuation(
           SubSeparators(
             Join(CleanLines(SubSpaceRuns(SubSeparators(text), 2)), <<" ">>))), 1))

(***************************************************************************)
(* EPUBExtractor._extract_text_from_html, documents without class          *)
(* attributes                                                              *)
(***************************************************************************)

\* A parsed document is a tree: a text node is [text |-> string], an element
\* is [name |-> tag, children |-> sequence of nodes].
IsTextNode(node) == "text" \in DOMAIN node

\* The elements removed before any text is taken (those of them the model's
\* documents hold).
DecomposedNames == {"script"}

\* for element in soup([...]): element.decompose()
RECURSIVE Decompose(_)
Decompose(node) ==
  IF IsTextNode(node) THEN node
  ELSE LET kept == SelectSeq(node.children,
                     LAMBDA child : IsTextNode(child) \/ child.name \notin DecomposedNames)
       IN  [name |-> node.name,
            children |-> [k \in 1..Len(kept) |-> Decompose(kept[k])]]

\* The strings of get_text(' ', strip=True): every text under the node, in
\* document order, stripped, the empty ones left out.
RECURSIVE StrippedStrings(_)
StrippedStrings(node) ==
  IF IsTextNode(node)
  THEN IF Strip(node.text) = <<>> THEN <<>> ELSE <<Strip(node.text)>>
  ELSE LET RECURSIVE OfChildren(_)
           OfChildren(k) ==
             IF k > Len(node.children) THEN <<>>
             ELSE StrippedStrings(node.children[k]) \o OfChildren(k + 1)
       IN  OfChildren(1)

\* p.get_text(' ', strip=True)
GetText(node) == Join(StrippedStrings(node), <<" ">>)

\* soup.find_all(names): the elements under the node with one of the names,
\* in document order, an element before the elements it contains.
RECURSIVE FindAll(_, _)
FindAll(node, names) ==
  IF IsTextNode(node) THEN <<>>
  ELSE LET RECURSIVE InChildren(_)
           InChildren(k) ==
             IF k > Len(node.children) THEN <<>>
             ELSE LET child == node.children[k]
                      self == IF ~IsTextNode(child) /\ child.name \in names
                              THEN <<child>> ELSE <<>>
                  IN  self \o FindAll(child, names) \o InChildren(k + 1)
       IN  InChildren(1)

\* The tags whose text the fallback takes.
BlockNames == {"p", "div", "section", "article"}

\* The fallback loop of _extract_text_from_html: the list paragraphs.
Paragraphs(soup) ==
  LET blocks == FindAll(soup, BlockNames)
      texts == [k \in 1..Len(blocks) |-> GetText(blocks[k])]
      kept == SelectSeq(texts, LAMBDA text : text # <<>>)
  IN  [k \in 1..Len(kept) |-> Join(Words(kept[k]), <<" ">>)]

\* _extract_text_from_html for a document none of whose elements has a class
\* attribute (has_exercise_content is False): the list paragraphs and the
\* string returned.
ExtractTextFromHtml(document) ==
  LET paragraphs == Paragraphs(Decompose(document)) IN
  [paragraphs |-> paragraphs, text |-> Join(paragraphs, <<"\n", "\n">>)]

(***************************************************************************)
(* get_extractor and the conversion entry points                           *)
(***************************************************************************)

PdfSuffix == <<".", "p", "d", "f">>

EpubSuffix == <<".", "e", "p", "u", "b">>

\* A variant of PDFExtractor.supports_file that compares the path as it is
\* written.
PdfSupportsFileCaseSensitive(file_path) == EndsWith(file_path, PdfSuffix)

\* PDFExtractor.supports_file
PdfSupportsFile(file_path) == EndsWith(Lower(file_path), PdfSuffix)

\* EPUBExtractor.supports_file
EpubSupportsFile(file_path) == EndsWith(Lower(file_path), EpubSuffix)

\* The registered extractor classes, in order.
EXTRACTORS == <<"PDFExtractor", "EPUBExtractor">>

\* extractor_cls.supports_file(file_path)
SupportsFile(extractor_cls, file_path) ==
  IF extractor_cls = "PDFExtractor" THEN PdfSupportsFile(file_path)
  ELSE EpubSupportsFile(file_path)

\* extractor_cls(): a new instance of the class.
Construct(extractor_cls) ==
  IF extractor_cls = "PDFExtractor"
  THEN [class |-> extractor_cls, fields |-> NewPdfExtractor]
  ELSE [class |-> extractor_cls, fields |-> NewExtractor]

\* The loop of get_extractor: the first registered class that supports the
\* file, "None" when there is none.
RECURSIVE ExtractorClass(_, _)
ExtractorClass(classes, file_path) ==
  IF classes = <<>> THEN "None"
  ELSE IF SupportsFile(classes[1], file_path) THEN classes[1]
  ELSE ExtractorClass(Tail(classes), file_path)

\* get_extractor(file_path), given the instances that exist (a reference is
\* an index of that list, 0 is None): the instances afterwards and the
\* reference returned.
GetExtractorCall(instances, file_path) ==
  LET extractor_cls == ExtractorClass(EXTRACTORS, file_path) IN
  IF extractor_cls = "None" THEN [instances |-> instances, ref |-> 0]
  ELSE [instances |-> Append(instances, Construct(extractor_cls)),
        ref |-> Len(instances) + 1]

\* No exception.
NoError == [type |-> "none", message |-> ""]

\* TextToSpeechApp._convert_file up to its extract_text call: the instances
\* afterwards, the instance extract_text is called on (0: it is not
\* called) and the exception that the handler wraps and raises.
AppConvertFile(instances, input_file) ==
  LET got == GetExtractorCall(instances, input_file) IN
  IF got.ref = 0
  THEN [instances |-> got.instances, extract_text_on |-> 0,
        raised |-> [type |-> "ValueError",
                    message |-> "Formato de archivo no soportado"]]
  ELSE [instances |-> got.instances, extract_text_on |-> got.ref, raised |-> NoError]

\* The names bound in the module of AudioConverter: its imports and the
\* class.
ConverterGlobals ==
  {"asyncio", "os", "re", "Optional", "Callable", "List", "Dict", "Any",
   "edge_tts", "VoiceManager", "AudioConverter"}

\* AudioConverter.convert_file up to its extract_text call.  The name
\* get_extractor is looked up in the module of AudioConverter; None has no
\* extract_text.
ConvertFile(instances, input_path) ==
  IF "get_extractor" \notin ConverterGlobals
  THEN [instances |-> instances, extract_text_on |-> 0,
        raised |-> [type |-> "NameError",
                    message |-> "name 'get_extractor' is not defined"]]
  ELSE LET got == GetExtractorCall(instances, input_path) IN
       IF got.ref = 0
       THEN [instances |-> got.instances, extract_text_on |-> 0,
             raised |-> [type |-> "AttributeError",
                         message |-> "'NoneType' object has no attribute 'extract_text'"]]
       ELSE [instances |-> got.instances, extract_text_on |-> got.ref,
             raised |-> NoError]

(***************************************************************************)
(* State                                                                   *)
(***************************************************************************)

VARIABLES
  extractor,        \* the fields of the EPUBExtractor instance
  calls,            \* extract_text calls made on this instance
  last,             \* the last extract_text call: its archive and its outcome
  fresh,            \* what a new extractor returned for the archive of last
  split,            \* a _split_into_chunks call: its arguments and its result
  is_processing,    \* AudioConverter._is_processing
  is_paused,        \* AudioConverter.is_paused
  is_cancelled,     \* AudioConverter.is_cancelled
  pc,               \* where the conversion thread stands
  texts,            \* _convert_file: the texts it converts, one call each
  chapter_nums,     \* _convert_file: the chapter number of each text's output
  call,             \* _convert_file: the text being converted (index in texts)
  chunk,            \* convert_text_to_speech: i of the chunk loop
  temp_files,       \* convert_text_to_speech: temp_files (chunk numbers)
  pending,          \* convert_text_to_speech: the return or raise under way
  disk,             \* the audio files that exist
  synthesized,      \* the <<text, chunk>> pairs sent to the voice, in order
  passed,           \* the <<text, chunk>> pairs that passed their cancel check
  cancel_called,    \* cancel() was called in this run
  passed_at_cancel, \* passed, as it was at the last cancel()
  combined,         \* the _combine_audio_files calls: text, output file and input files
  pause_called,     \* pause() was called, and neither resume() nor cancel() since
  passed_at_pause,  \* the chunks that had left the pause loop at the last pause()
  pdf_file,         \* the PDF file the PDFExtractor instance is used on
  pdf_extractor,    \* the fields of the PDFExtractor instance
  pdf_last,         \* the last call on the PDFExtractor and its outcome
  clean,            \* a clean_text call: its argument and its results
  titled,           \* a chapter list made by one strategy, and what it was made from
  instances,        \* the extractor instances get_extractor has created
  entry,            \* the last get_extractor or conversion entry call and its outcome
  rendered,         \* an _extract_text_from_html call: its document and its result
  named,            \* a run of _convert_file: its chapters, selection and output files
  app               \* the TextToSpeechApp: its flag, its threads and its pending callbacks

epubVars == <<extractor, calls, last, fresh>>

splitVars == <<split>>

flagVars == <<is_processing, is_paused, is_cancelled>>

threadVars == <<pc, texts, chapter_nums, call, chunk, temp_files, pending>>

pauseAudit == <<pause_called, passed_at_pause>>

auditVars == <<synthesized, passed, cancel_called, passed_at_cancel, combined, pauseAudit>>

convVars == <<flagVars, threadVars, disk, auditVars>>

pdfVars == <<pdf_file, pdf_extractor, pdf_last>>

callVars == <<titled, instances, entry, rendered, named, app>>

libVars == <<pdfVars, clean, callVars>>

vars == <<epubVars, splitVars, convVars, libVars>>

\* The state of a newly constructed EPUBExtractor, before any call.
EpubIdle ==
  /\ extractor = NewExtractor
  /\ calls = 0
  /\ last = [called |-> FALSE]
  /\ fresh = <<>>

\* No _split_into_chunks call is under consideration.
SplitIdle == split = [called |-> FALSE, text |-> <<>>, max_chars |-> 0, chunks |-> <<>>]

\* The state of a newly constructed AudioConverter, with no conversion thread.
ConvIdle ==
  /\ is_processing = FALSE
  /\ is_paused = FALSE
  /\ is_cancelled = FALSE
  /\ pc = "idle"
  /\ texts = <<>>
  /\ chapter_nums = <<>>
  /\ call = 0
  /\ chunk = 0
  /\ temp_files = <<>>
  /\ pending = "none"
  /\ disk = {}
  /\ synthesized = <<>>
  /\ passed = {}
  /\ cancel_called = FALSE
  /\ passed_at_cancel = {}
  /\ combined = <<>>
  /\ pause_called = FALSE
  /\ passed_at_pause = {}

\* No PDFExtractor is in use.
PdfIdle ==
  /\ pdf_file = [opens |-> FALSE, pages |-> <<>>, unreadable |-> {}]
  /\ pdf_extractor = NewPdfExtractor
  /\ pdf_last = [op |-> "none"]

\* No clean_text call is under consideration.
CleanIdle == clean = [called |-> FALSE, text |-> <<>>]

\* No other call is under consideration.
\* TextToSpeechApp.__init__: not processing, no conversion thread, and no
\* callback waiting in the event loop.
NewApp ==
  [is_processing |-> FALSE, threads |-> <<>>, after |-> <<>>, delayed |-> 0,
   completed |-> {}, failed |-> {}]

CallsIdle ==
  /\ titled = [strategy |-> "none"]
  /\ instances = <<>>
  /\ entry = [op |-> "none"]
  /\ rendered = [called |-> FALSE]
  /\ named = [called |-> FALSE]
  /\ app = NewApp

\* The parts of the program that are not under consideration are at rest.
LibIdle == PdfIdle /\ CleanIdle /\ CallsIdle

(***************************************************************************)
(* EPUBExtractor: calls of extract_text                                    *)
(***************************************************************************)

\* Calls of extract_text made on one instance before it is replaced.
MaxCalls == 2

EpubInit == EpubIdle /\ SplitIdle /\ ConvIdle /\ LibIdle

\* extract_text(file_path) on this instance: the archive and the outcome of
\* the call (returned list, candidates, selection, fields afterwards).  The
\* call made on a newly constructed instance leaves its result in fresh.
CallExtractText(doc) ==
  /\ last' = [called |-> TRUE,
              doc |-> doc,
              call |-> calls + 1,
              out |-> ExtractText(extractor, doc)]
  /\ extractor' = last'.out.self
  /\ fresh' = IF calls = 0 THEN last'.out.returned ELSE fresh
  /\ calls' = calls + 1
  /\ UNCHANGED <<splitVars, convVars, libVars>>

\* The first extract_text of an instance, on an archive with broken package
\* metadata.
ExtractBroken ==
  /\ calls = 0
  /\ \E doc \in BrokenDocs : CallExtractText(doc)

\* The first extract_text of an instance, on an archive whose container and
\* package parse.
ExtractSound ==
  /\ calls = 0
  /\ \E present \in SUBSET ContentIndex, spine \in SeqsUpTo(SpineIds, MaxSpine) :
       \E fault \in {<<"none", 0>>} \cup ({"ioerr", "blank"} \X present) :
          \/ \E nav \in SeqsUpTo(ContentIndex, MaxNavPoints) :
                CallExtractText(MakeDoc("ok", present, "ok", nav, spine, fault))
          \/ \E ncx \in {"none", "missing", "unreadable"} :
                CallExtractText(MakeDoc("ok", present, ncx, <<>>, spine, fault))

\* A further extract_text on the same instance with the same archive, as
\* get_chapters followed by extract_chapter makes it.
ExtractAgain ==
  /\ calls > 0
  /\ calls < MaxCalls
  /\ CallExtractText(last.doc)

\* get_extractor(file_path): a new EPUBExtractor replaces the instance.
GetExtractor ==
  /\ calls > 0
  /\ extractor' = NewExtractor
  /\ calls' = 0
  /\ last' = [called |-> FALSE]
  /\ fresh' = <<>>
  /\ UNCHANGED <<splitVars, convVars, libVars>>

EpubNext ==
  \/ ExtractBroken
  \/ ExtractSound
  \/ ExtractAgain
  \/ GetExtractor

SpecEpub == EpubInit /\ [][EpubNext]_vars

(***************************************************************************)
(* AudioConverter: calls of _split_into_chunks                             *)
(***************************************************************************)

\* The longest text given to _split_into_chunks.
MaxTextLen == 6

\* The largest max_chars given to _split_into_chunks.
MaxLimit == 4

\* The characters of those texts: two letters, the full stop, the space and
\* the newline.
SplitAlphabet == {"a", "b", ".", " ", "\n"}

\* Any text and any limit, before the call.
SplitInit ==
  /\ EpubIdle
  /\ ConvIdle
  /\ LibIdle
  /\ \E text \in SeqsUpTo(SplitAlphabet, MaxTextLen), max_chars \in 1..MaxLimit :
       split = [called |-> FALSE, text |-> text, max_chars |-> max_chars,
                chunks |-> <<>>]

\* chunks = self._split_into_chunks(text, max_chars)
CallSplitIntoChunks ==
  /\ ~split.called
  /\ split' = [split EXCEPT !.called = TRUE,
                            !.chunks = SplitIntoChunks(split.text, split.max_chars)]
  /\ UNCHANGED <<epubVars, convVars, libVars>>

SplitNext == CallSplitIntoChunks

SpecSplit == SplitInit /\ [][SplitNext]_vars

(***************************************************************************)
(* PDFExtractor: calls of get_chapters and extract_chapter                 *)
(***************************************************************************)

PdfInit == EpubIdle /\ SplitIdle /\ ConvIdle /\ LibIdle

\* get_extractor(file_path) for a PDF file: a new PDFExtractor, used on that
\* file.
GetPdfExtractor ==
  /\ pdf_last.op = "none"
  /\ \E doc \in PdfDocs : pdf_file' = doc
  /\ pdf_extractor' = NewPdfExtractor
  /\ pdf_last' = [op |-> "get_extractor"]
  /\ UNCHANGED <<epubVars, splitVars, convVars, clean, callVars>>

\* get_chapters(file_path) on the instance.
CallGetChapters ==
  /\ pdf_last.op # "none"
  /\ pdf_last' = [op |-> "get_chapters",
                  out |-> GetChapters(pdf_extractor, pdf_file)]
  /\ pdf_extractor' = pdf_last'.out.self
  /\ UNCHANGED <<pdf_file, epubVars, splitVars, convVars, clean, callVars>>

\* extract_chapter(file_path, chapter_index) on the instance, for an index
\* of the chapter list or the one after its last.
CallExtractChapter ==
  /\ pdf_last.op # "none"
  /\ \E chapter_index \in 0..Len(GetChapters(NewPdfExtractor, pdf_file).returned) :
       pdf_last' = [op |-> "extract_chapter",
                    chapter_index |-> chapter_index,
                    known |-> pdf_extractor.chapter_titles # <<>>,
                    out |-> ExtractChapter(pdf_extractor, pdf_file, chapter_index)]
  /\ pdf_extractor' = pdf_last'.out.self
  /\ UNCHANGED <<pdf_file, epubVars, splitVars, convVars, clean, callVars>>

PdfNext ==
  \/ GetPdfExtractor
  \/ CallGetChapters
  \/ CallExtractChapter

SpecPdf == PdfInit /\ [][PdfNext]_vars

(***************************************************************************)
(* BaseExtractor: calls of clean_text                                      *)
(***************************************************************************)

\* The greatest length of the text given to clean_text.
MaxCleanLen == 6

\* The characters of the text: a letter, a punctuation mark, a separator, a
\* blank and a line break.
CleanAlphabet == {"a", ".", "-", " ", "\n"}

\* A clean_text call is about to be made on some text.
CleanInit ==
  /\ EpubIdle
  /\ SplitIdle
  /\ ConvIdle
  /\ PdfIdle
  /\ CallsIdle
  /\ \E text \in SeqsUpTo(CleanAlphabet, MaxCleanLen) :
       clean = [called |-> FALSE, text |-> text]

\* clean_text(text), and clean_text of what it returned.
CallCleanText ==
  /\ ~clean.called
  /\ clean' = [called |-> TRUE, text |-> clean.text,
               once |-> CleanText(clean.text),
               twice |-> CleanText(CleanText(clean.text))]
  /\ UNCHANGED <<epubVars, splitVars, convVars, pdfVars, callVars>>

CleanNext == CallCleanText

SpecClean == CleanInit /\ [][CleanNext]_vars

(***************************************************************************)
(* The chapter titles of every strategy                                    *)
(***************************************************************************)

\* The greatest length of a file name a navigation point refers to.
MaxNameLen == 6

\* The characters of such a file name: a digit, a letter, the two separators
\* and the dot.
NameAlphabet == {"0", "a", "_", "-", "."}

\* [chap['title'] for chap in chapters]
TitlesOf(toc) == [i \in 1..Len(toc) |-> toc[i].title]

TitlesInit == EpubIdle /\ SplitIdle /\ ConvIdle /\ LibIdle

\* _parse_ncx on a navigation document with one navPoint, whose content src
\* is a file name made of the characters above (empty included).
TitleNavigation ==
  /\ titled.strategy = "none"
  /\ \E name \in SeqsUpTo(NameAlphabet, MaxNameLen) :
       titled' = [strategy |-> "navigation",
                  source |-> name,
                  titles |-> TitlesOf(ParseNcx(<<>>, InPackage(NcxHref),
                               [readable |-> TRUE,
                                nav_points |-> <<[has_label |-> TRUE,
                                                  has_content |-> TRUE,
                                                  src |-> name]>>]))]
  /\ UNCHANGED <<epubVars, splitVars, convVars, pdfVars, clean, instances, entry, rendered, named, app>>

\* The spine candidate of extract_text, for a spine and the hrefs of the
\* manifest items (those of the content documents the package declares).
TitleSpine ==
  /\ titled.strategy = "none"
  /\ \E spine \in SeqsUpTo(SpineIds, MaxSpine), present \in SUBSET ContentIndex :
       LET id_to_href == [id \in {ContentFiles[k].id : k \in present} |->
                            InPackage(ContentFiles[CHOOSE k \in present :
                                                     ContentFiles[k].id = id].href)]
           spine_toc == SpineToc(spine, 1, id_to_href)
       IN  titled' = [strategy |-> "spine",
                      source |-> spine,
                      id_to_href |-> id_to_href,
                      files |-> [i \in 1..Len(spine_toc) |-> spine_toc[i].file],
                      titles |-> TitlesOf(spine_toc)]
  /\ UNCHANGED <<epubVars, splitVars, convVars, pdfVars, clean, instances, entry, rendered, named, app>>

\* _get_toc_from_html_files on the content documents of an archive.
TitleRawHtml ==
  /\ titled.strategy = "none"
  /\ \E html_files \in SeqsUpTo({InPackage(ContentFiles[k].href) : k \in ContentIndex},
                                 MaxSpine) :
       titled' = [strategy |-> "raw_html",
                  source |-> html_files,
                  titles |-> TitlesOf(GetTocFromHtmlFiles(html_files))]
  /\ UNCHANGED <<epubVars, splitVars, convVars, pdfVars, clean, instances, entry, rendered, named, app>>

\* PDFExtractor.get_chapters on a new instance: the headings detected, or
\* the page fallback.
TitlePdf ==
  /\ titled.strategy = "none"
  /\ \E doc \in PdfDocs :
       titled' = [strategy |-> "pdf",
                  source |-> doc,
                  titles |-> GetChapters(NewPdfExtractor, doc).returned]
  /\ UNCHANGED <<epubVars, splitVars, convVars, pdfVars, clean, instances, entry, rendered, named, app>>

TitlesNext ==
  \/ TitleNavigation
  \/ TitleSpine
  \/ TitleRawHtml
  \/ TitlePdf

SpecTitles == TitlesInit /\ [][TitlesNext]_vars

(***************************************************************************)
(* get_extractor and the conversion entry points: calls                    *)
(***************************************************************************)

\* The greatest number of extractor instances created.
MaxInstances == 2

\* The file paths of the calls: two stems, each with a supported extension
\* in lower, upper or mixed case, with another extension, with the letters
\* of an extension and no dot, with two extensions, or with none.
EntryPaths ==
  {stem \o suffix :
     stem \in {<<>>, <<"b">>},
     suffix \in {<<>>, PdfSuffix, <<".", "P", "D", "F">>, <<".", "P", "d", "f">>,
                 EpubSuffix, <<".", "E", "P", "U", "B">>, <<".", "e", "P", "u", "b">>,
                 <<".", "t", "x", "t">>, <<"p", "d", "f">>, <<"e", "p", "u", "b">>,
                 PdfSuffix \o <<".", "t", "x", "t">>, EpubSuffix \o PdfSuffix}}

EntryInit == EpubIdle /\ SplitIdle /\ ConvIdle /\ LibIdle

\* get_extractor(file_path)
CallGetExtractor ==
  /\ Len(instances) < MaxInstances
  /\ \E file_path \in EntryPaths :
       LET got == GetExtractorCall(instances, file_path) IN
       /\ instances' = got.instances
       /\ entry' = [op |-> "get_extractor", file_path |-> file_path,
                    before |-> Len(instances), ref |-> got.ref]
  /\ UNCHANGED <<epubVars, splitVars, convVars, pdfVars, clean, titled, rendered, named, app>>

\* TextToSpeechApp._convert_file(input_file, ...), up to its extract_text
\* call.
CallAppConvertFile ==
  /\ Len(instances) < MaxInstances
  /\ \E input_file \in EntryPaths :
       LET out == AppConvertFile(instances, input_file) IN
       /\ instances' = out.instances
       /\ entry' = [op |-> "_convert_file", file_path |-> input_file,
                    before |-> Len(instances),
                    extract_text_on |-> out.extract_text_on, raised |-> out.raised]
  /\ UNCHANGED <<epubVars, splitVars, convVars, pdfVars, clean, titled, rendered, named, app>>

\* AudioConverter.convert_file(input_path, ...), up to its extract_text
\* call.
CallConvertFile ==
  /\ Len(instances) < MaxInstances
  /\ \E input_path \in EntryPaths :
       LET out == ConvertFile(instances, input_path) IN
       /\ instances' = out.instances
       /\ entry' = [op |-> "convert_file", file_path |-> input_path,
                    before |-> Len(instances),
                    extract_text_on |-> out.extract_text_on, raised |-> out.raised]
  /\ UNCHANGED <<epubVars, splitVars, convVars, pdfVars, clean, titled, rendered, named, app>>

EntryNext ==
  \/ CallGetExtractor
  \/ CallAppConvertFile
  \/ CallConvertFile

SpecEntry == EntryInit /\ [][EntryNext]_vars

(***************************************************************************)
(* EPUBExtractor: calls of _extract_text_from_html                         *)
(***************************************************************************)

\* The greatest number of children of an element.
MaxChildren == 2

\* The texts of a document: two words, a blank, and a word between blanks.
TextNodes == {[text |-> t] : t \in {<<"x">>, <<"y">>, <<" ">>, <<" ", "x", "\n">>}}

\* The elements that hold at most one text, and the nodes of that depth.
LeafElements ==
  {[name |-> n, children |-> c] :
     n \in {"p", "div", "span", "script"}, c \in SeqsUpTo(TextNodes, 1)}

LeafNodes == TextNodes \cup LeafElements

\* The containers of such nodes.
Containers ==
  {[name |-> n, children |-> c] :
     n \in {"div", "section", "article"}, c \in SeqsUpTo(LeafNodes, MaxChildren)}

\* The documents: a body that holds such nodes, or one container of them.
HtmlDocuments ==
  {[name |-> "body", children |-> c] :
     c \in SeqsUpTo(LeafNodes, MaxChildren) \cup {<<e>> : e \in Containers}}

HtmlInit == EpubIdle /\ SplitIdle /\ ConvIdle /\ LibIdle

\* _extract_text_from_html(content)
CallExtractTextFromHtml ==
  /\ ~rendered.called
  /\ \E document \in HtmlDocuments :
       rendered' = [called |-> TRUE, document |-> document,
                    out |-> ExtractTextFromHtml(document)]
  /\ UNCHANGED <<epubVars, splitVars, convVars, pdfVars, clean, titled, instances, entry, named, app>>

HtmlNext == CallExtractTextFromHtml

SpecHtml == HtmlInit /\ [][HtmlNext]_vars

(***************************************************************************)
(* TextToSpeechApp._convert_file and AudioConverter.convert_text_to_speech *)
(***************************************************************************)

\* The most chapters an extracted content has.
MaxChapters == 2

\* The most chunks _split_into_chunks gives for one text.
MaxChunks == 2

\* A text is represented by the number of chunks _split_into_chunks gives for
\* it after strip(); 0 stands for a text that is empty or blank, and the
\* chunks of joined texts are the chunks of the texts.  The extracted content
\* is the list of the chapters' texts.
Contents == SeqsUpTo(0..MaxChunks, MaxChapters)

\* '\n\n'.join of the chapters' texts.
RECURSIVE CombinedContent(_)
CombinedContent(content) ==
  IF content = <<>> THEN 0 ELSE Head(content) + CombinedContent(Tail(content))

\* The values of self.selected_chapters: None, or the sorted list of the
\* selected indices (0-based) the chapter dialog leaves; the dialog turns an
\* empty selection into None.
Selections(content) ==
  {[is_none |-> TRUE, indices |-> <<>>]} \cup
  {[is_none |-> FALSE, indices |-> Ascending(S)] :
     S \in (SUBSET {i - 1 : i \in 1..Len(content)}) \ {{}}}

\* temp_chunk_{i}.mp3
TempFile(i) == <<"temp_chunk", i>>

\* output_file of a single conversion (chapter_num 0) and
\* {base}_capitulo{chapter_num:02d}{ext} of a chapter.
OutputFile(chapter_num) == <<"output", chapter_num>>

\* A variant of _cleanup_temp_files that removes nothing.
CleanupNothing(files, on_disk) == on_disk

\* _cleanup_temp_files(files)
CleanupTempFiles(files, on_disk) ==
  on_disk \ {TempFile(files[k]) : k \in 1..Len(files)}

ConvInit == EpubIdle /\ SplitIdle /\ ConvIdle /\ LibIdle

\* _convert_file up to its first convert_text_to_speech call: the extracted
\* content is checked, and either combined into one text or filtered by the
\* selection into one text per chapter.
StartConvertFile ==
  /\ pc = "idle"
  /\ \E content \in Contents :
       \E selected_chapters \in Selections(content) :
          /\ IF content = <<>>
             THEN /\ texts' = <<>>
                  /\ chapter_nums' = <<>>
                  /\ pc' = "error"
                  /\ call' = 0
             ELSE /\ IF selected_chapters.is_none
                     THEN /\ texts' = <<CombinedContent(content)>>
                          /\ chapter_nums' = <<0>>
                     ELSE /\ texts' = [i \in 1..Len(selected_chapters.indices) |->
                                         content[selected_chapters.indices[i] + 1]]
                          /\ chapter_nums' = [i \in 1..Len(selected_chapters.indices) |->
                                                selected_chapters.indices[i] + 1]
                  /\ pc' = "call"
                  /\ call' = 1
  /\ UNCHANGED <<libVars, epubVars, splitVars, flagVars, chunk, temp_files, pending, disk,
                 auditVars>>

\* convert_text_to_speech, entry: an empty or blank text raises ValueError
\* before any flag is touched (and _convert_file re-raises it); otherwise
\* the three flags are set.
EnterConvert ==
  /\ pc = "call"
  /\ IF texts[call] = 0
     THEN /\ pc' = "error"
          /\ UNCHANGED flagVars
     ELSE /\ pc' = "lookup"
          /\ is_processing' = TRUE
          /\ is_paused' = FALSE
          /\ is_cancelled' = FALSE
  /\ pending' = "none"
  /\ chunk' = 0
  /\ temp_files' = <<>>
  /\ UNCHANGED <<libVars, epubVars, splitVars, texts, chapter_nums, call, disk, auditVars>>

\* convert_text_to_speech from the voice lookup to the head of the chunk
\* loop: an unknown voice raises ValueError before temp_files is assigned.
PrepareChunks ==
  /\ pc = "lookup"
  /\ \E voice_found \in BOOLEAN :
       IF voice_found
       THEN /\ pc' = "check"
            /\ chunk' = 1
            /\ temp_files' = <<>>
            /\ pending' = "none"
       ELSE /\ pc' = "finally"
            /\ pending' = "voice not found"
            /\ UNCHANGED <<chunk, temp_files>>
  /\ UNCHANGED <<libVars, epubVars, splitVars, flagVars, texts, chapter_nums, call, disk,
                 auditVars>>

\* The first `if self.is_cancelled` of the chunk loop.
CheckCancelled ==
  /\ pc = "check"
  /\ IF is_cancelled
     THEN /\ disk' = CleanupTempFiles(temp_files, disk)
          /\ pending' = "False"
          /\ pc' = "finally"
     ELSE /\ pc' = "wait"
          /\ UNCHANGED <<disk, pending>>
  /\ UNCHANGED <<libVars, epubVars, splitVars, flagVars, texts, chapter_nums, call, chunk,
                 temp_files, auditVars>>

\* `while self.is_paused and not self.is_cancelled: sleep` is left.
LeavePauseLoop ==
  /\ pc = "wait"
  /\ ~(is_paused /\ ~is_cancelled)
  /\ pc' = "recheck"
  /\ UNCHANGED <<libVars, epubVars, splitVars, flagVars, texts, chapter_nums, call, chunk,
                 temp_files, pending, disk, auditVars>>

\* The second `if self.is_cancelled` of the chunk loop; a chunk that passes
\* it goes to the voice.
RecheckCancelled ==
  /\ pc = "recheck"
  /\ IF is_cancelled
     THEN /\ disk' = CleanupTempFiles(temp_files, disk)
          /\ pending' = "False"
          /\ pc' = "finally"
          /\ UNCHANGED passed
     ELSE /\ pc' = "synthesize"
          /\ passed' = passed \cup {<<call, chunk>>}
          /\ UNCHANGED <<disk, pending>>
  /\ UNCHANGED <<libVars, epubVars, splitVars, flagVars, texts, chapter_nums, call, chunk,
                 temp_files, synthesized, cancel_called, passed_at_cancel, combined, pauseAudit>>

\* The chunk is synthesized into its temporary file; the loop goes to the
\* next chunk or ends.
SynthesizeChunk ==
  /\ pc = "synthesize"
  /\ temp_files' = Append(temp_files, chunk)
  /\ disk' = disk \cup {TempFile(chunk)}
  /\ synthesized' = Append(synthesized, <<call, chunk>>)
  /\ IF chunk < texts[call]
     THEN /\ chunk' = chunk + 1
          /\ pc' = "check"
     ELSE /\ pc' = "combine"
          /\ UNCHANGED chunk
  /\ UNCHANGED <<libVars, epubVars, splitVars, flagVars, texts, chapter_nums, call, pending,
                 passed, cancel_called, passed_at_cancel, combined, pauseAudit>>

\* The synthesis of the chunk fails or times out: the temporary files are
\* removed, the error is re-raised and the outer handler removes the output
\* file if it exists.
SynthesizeFails ==
  /\ pc = "synthesize"
  /\ temp_files' = Append(temp_files, chunk)
  /\ disk' = CleanupTempFiles(temp_files', disk) \ {OutputFile(chapter_nums[call])}
  /\ pending' = "Exception"
  /\ pc' = "finally"
  /\ UNCHANGED <<libVars, epubVars, splitVars, flagVars, texts, chapter_nums, call, chunk,
                 auditVars>>

\* _combine_audio_files writes the output file; the call is about to return
\* True.
CombineAudioFiles ==
  /\ pc = "combine"
  /\ disk' = disk \cup {OutputFile(chapter_nums[call])}
  /\ combined' = Append(combined, [call |-> call,
                                   output_file |-> OutputFile(chapter_nums[call]),
                                   input_files |-> temp_files])
  /\ pending' = "True"
  /\ pc' = "finally"
  /\ UNCHANGED <<libVars, epubVars, splitVars, flagVars, texts, chapter_nums, call, chunk,
                 temp_files, synthesized, passed, cancel_called, passed_at_cancel, pauseAudit>>

\* The finally clause: the is_processing setter clears the three flags and
\* the temporary files are removed; temp_files is unbound when the voice
\* lookup raised.  Then _convert_file goes on: it re-raises an error, and
\* otherwise, whatever was returned, converts the next text or completes.
FinallyAndReturn ==
  /\ pc = "finally"
  /\ is_processing' = FALSE
  /\ is_paused' = FALSE
  /\ is_cancelled' = FALSE
  /\ IF pending = "voice not found"
     THEN /\ pending' = "UnboundLocalError"
          /\ UNCHANGED <<disk, temp_files>>
     ELSE /\ disk' = CleanupTempFiles(temp_files, disk)
          /\ UNCHANGED <<pending, temp_files>>
  /\ IF pending' \notin {"True", "False"}
     THEN /\ pc' = "error"
          /\ UNCHANGED call
     ELSE IF call < Len(texts)
     THEN /\ pc' = "call"
          /\ call' = call + 1
     ELSE /\ pc' = "complete"
          /\ UNCHANGED call
  /\ UNCHANGED <<libVars, epubVars, splitVars, texts, chapter_nums, chunk, auditVars>>

\* AudioConverter.pause(), as the pause button calls it during a conversion.
Pause ==
  /\ is_processing
  /\ ~is_paused
  /\ is_paused' = TRUE
  /\ pause_called' = TRUE
  /\ passed_at_pause' = passed \cup (IF pc \in {"recheck", "synthesize"}
                                    THEN {<<call, chunk>>} ELSE {})
  /\ UNCHANGED <<libVars, epubVars, splitVars, is_processing, is_cancelled, threadVars, disk,
                 synthesized, passed, cancel_called, passed_at_cancel, combined>>

\* AudioConverter.resume()
Resume ==
  /\ is_processing
  /\ is_paused
  /\ is_paused' = FALSE
  /\ pause_called' = FALSE
  /\ UNCHANGED <<libVars, epubVars, splitVars, is_processing, is_cancelled, threadVars, disk,
                 synthesized, passed, cancel_called, passed_at_cancel, combined,
                 passed_at_pause>>

\* AudioConverter.cancel() while a conversion is running.
Cancel ==
  /\ is_processing
  /\ ~is_cancelled
  /\ is_cancelled' = TRUE
  /\ cancel_called' = TRUE
  /\ passed_at_cancel' = passed
  /\ pause_called' = FALSE
  /\ UNCHANGED <<libVars, epubVars, splitVars, is_processing, is_paused, threadVars, disk,
                 synthesized, passed, combined, passed_at_pause>>

ConvNext ==
  \/ StartConvertFile
  \/ EnterConvert
  \/ PrepareChunks
  \/ CheckCancelled
  \/ LeavePauseLoop
  \/ RecheckCancelled
  \/ SynthesizeChunk
  \/ SynthesizeFails
  \/ CombineAudioFiles
  \/ FinallyAndReturn
  \/ Pause
  \/ Resume
  \/ Cancel

SpecConv == ConvInit /\ [][ConvNext]_vars

\* The steps of the conversion thread.
ThreadStep ==
  \/ EnterConvert
  \/ PrepareChunks
  \/ CheckCancelled
  \/ LeavePauseLoop
  \/ RecheckCancelled
  \/ SynthesizeChunk
  \/ SynthesizeFails
  \/ CombineAudioFiles
  \/ FinallyAndReturn

\* The conversion thread keeps running: the pause loop polls the flags every
\* 0.1 s and each synthesis ends, by its result, its error or its timeout.
SpecConvFair == SpecConv /\ WF_vars(ThreadStep)

(***************************************************************************)
(* TextToSpeechApp._convert_file: the output files of a run                *)
(***************************************************************************)

\* os.path.splitext(output_file) of the output path the app proposes.
OutputBase == <<"b", "o", "o", "k">>

OutputExt == <<".", "m", "p", "3">>

\* chapter_output = f"{base}_capitulo{chapter_num:02d}{ext}"
ChapterOutput(base, ext, chapter_num) ==
  base \o <<"_", "c", "a", "p", "i", "t", "u", "l", "o">> \o Fmt0(chapter_num, 2) \o ext

\* The titles of the chapters: plain ones and ones with characters that a
\* file name cannot hold.
ChapterTitles ==
  { <<"a">>, <<"b">>, <<"b", "?">>, <<"a", ":", "b">>, <<"a", "/", "b">>, <<"?">> }

\* The output files _convert_file has convert_text_to_speech write, for the
\* chapters extracted (by their titles) and the selection: the output file
\* itself when nothing is selected, one file per selected chapter otherwise.
OutputFiles(titles, selected_chapters) ==
  IF selected_chapters.is_none THEN <<OutputBase \o OutputExt>>
  ELSE [i \in 1..Len(selected_chapters.indices) |->
          ChapterOutput(OutputBase, OutputExt, selected_chapters.indices[i] + 1)]

NamesInit == EpubIdle /\ SplitIdle /\ ConvIdle /\ LibIdle

\* A run of _convert_file over chapters with text, for which every
\* convert_text_to_speech call returns True.
ConvertChapters ==
  /\ ~named.called
  /\ \E titles \in SeqsUpTo(ChapterTitles, MaxChapters) \ {<<>>} :
       \E selected_chapters \in Selections(titles) :
          named' = [called |-> TRUE, titles |-> titles,
                    selected_chapters |-> selected_chapters,
                    files |-> OutputFiles(titles, selected_chapters)]
  /\ UNCHANGED <<epubVars, splitVars, convVars, pdfVars, clean, titled, instances, entry,
                 rendered, app>>

NamesNext == ConvertChapters

SpecNames == NamesInit /\ [][NamesNext]_vars

(***************************************************************************)
(* TextToSpeechApp: the buttons, the conversion threads and the callbacks  *)
(***************************************************************************)

\* Conversion threads started in one session of the app.
MaxThreads == 2

\* What the actions of the app leave alone: they act on the app and on the
\* three flags of the AudioConverter it shares with its threads.
appFrame ==
  <<epubVars, splitVars, threadVars, disk, auditVars, pdfVars, clean, titled, instances,
    entry, rendered, named>>

\* threading.Thread(...).start() of start_conversion: a thread about to run
\* run_conversion.
NewThread == [at |-> "run_conversion", cancelled |-> FALSE, results |-> {}]

\* The threads that have not ended.
ActiveThreads == {t \in 1..Len(app.threads) : app.threads[t].at # "done"}

\* The threads inside convert_text_to_speech, between the flags being set
\* and the finally clause.
ConvertingThreads ==
  {t \in 1..Len(app.threads) : app.threads[t].at = "convert_text_to_speech"}

AppInit == EpubIdle /\ SplitIdle /\ ConvIdle /\ LibIdle

\* start_conversion, the command of the Convert button, which update_ui_state
\* enables when is_processing is false; a file and a voice are selected.
StartConversion ==
  /\ ~app.is_processing
  /\ Len(app.threads) < MaxThreads
  /\ app' = [app EXCEPT !.is_processing = TRUE,
                        !.threads = Append(@, NewThread)]
  /\ UNCHANGED <<flagVars, appFrame>>

\* run_conversion in its thread: is_processing is set again and the thread
\* of _run_conversion_thread is started.
RunConversion ==
  \E t \in 1..Len(app.threads) :
     /\ app.threads[t].at = "run_conversion"
     /\ app' = [app EXCEPT !.is_processing = TRUE,
                           !.threads[t].at = "_convert_file"]
     /\ UNCHANGED <<flagVars, appFrame>>

\* _run_conversion_thread and _convert_file up to the convert_text_to_speech
\* call: reset_ui_state is scheduled, the text is extracted; an unsupported
\* format or a book without content ends the thread and schedules
\* on_conversion_error.
BeginConvertFile ==
  \E t \in 1..Len(app.threads) :
     /\ app.threads[t].at = "_convert_file"
     /\ \E raised \in BOOLEAN :
          app' = [app EXCEPT
                    !.after = IF raised
                              THEN @ \o <<<<"reset_ui_state", t>>, <<"on_conversion_error", t>>>>
                              ELSE Append(@, <<"reset_ui_state", t>>),
                    !.threads[t].at = IF raised THEN "done" ELSE "call"]
     /\ UNCHANGED <<flagVars, appFrame>>

\* convert_text_to_speech, entry, in a thread of the app: a text that is
\* empty or blank raises ValueError before any flag is touched, which ends
\* the thread and schedules on_conversion_error; otherwise the three flags
\* of the shared converter are set.
EnterConvertInThread ==
  \E t \in 1..Len(app.threads) :
     /\ app.threads[t].at = "call"
     /\ \E blank \in BOOLEAN :
          IF blank
          THEN /\ app' = [app EXCEPT !.threads[t].at = "done",
                                     !.after = Append(@, <<"on_conversion_error", t>>)]
               /\ UNCHANGED flagVars
          ELSE /\ is_processing' = TRUE
               /\ is_paused' = FALSE
               /\ is_cancelled' = FALSE
               /\ app' = [app EXCEPT !.threads[t].at = "convert_text_to_speech"]
     /\ UNCHANGED appFrame

\* convert_text_to_speech returns True, returns False (it saw is_cancelled)
\* or raises; its finally clause clears the three flags.  _convert_file
\* ignores the value returned: it converts the next chapter, or returns and
\* _run_conversion_thread schedules on_conversion_complete; a raise
\* schedules on_conversion_error.
LeaveConvertInThread ==
  \E t \in 1..Len(app.threads) :
     /\ app.threads[t].at = "convert_text_to_speech"
     /\ is_processing' = FALSE
     /\ is_paused' = FALSE
     /\ is_cancelled' = FALSE
     /\ \E outcome \in {"True", "False", "raise"} :
          /\ outcome = "False" => is_cancelled
          /\ IF outcome = "raise"
             THEN app' = [app EXCEPT !.threads[t].at = "done",
                                     !.after = Append(@, <<"on_conversion_error", t>>)]
             ELSE \E more \in BOOLEAN :
                    app' = [app EXCEPT
                              !.threads[t].results = @ \cup {outcome},
                              !.threads[t].at = IF more THEN "call" ELSE "done",
                              !.after = IF more THEN @
                                        ELSE Append(@, <<"on_conversion_complete", t>>)]
     /\ UNCHANGED appFrame

\* The event loop runs the first callback scheduled with after(0, ...):
\* reset_ui_state clears is_processing; on_conversion_complete reports
\* success and schedules reset_ui_state for two seconds later;
\* on_conversion_error reports the error.
RunCallback ==
  /\ app.after # <<>>
  /\ LET callback == Head(app.after)[1]
         t == Head(app.after)[2]
     IN app' = [app EXCEPT
                  !.after = Tail(@),
                  !.is_processing = IF callback = "reset_ui_state" THEN FALSE ELSE @,
                  !.delayed = IF callback = "on_conversion_complete" THEN @ + 1 ELSE @,
                  !.completed = IF callback = "on_conversion_complete" THEN @ \cup {t} ELSE @,
                  !.failed = IF callback = "on_conversion_error" THEN @ \cup {t} ELSE @]
  /\ UNCHANGED <<flagVars, appFrame>>

\* The event loop runs a reset_ui_state scheduled by on_conversion_complete.
RunDelayedReset ==
  /\ app.delayed > 0
  /\ app' = [app EXCEPT !.delayed = @ - 1, !.is_processing = FALSE]
  /\ UNCHANGED <<flagVars, appFrame>>

\* cancel_conversion, the command of the Cancel button (enabled when
\* is_processing is true), confirmed: AudioConverter.cancel() and
\* is_processing = False.
CancelConversion ==
  /\ app.is_processing
  /\ is_cancelled' = TRUE
  /\ app' = [app EXCEPT
               !.is_processing = FALSE,
               !.threads = [t \in 1..Len(@) |->
                              IF @[t].at # "done" THEN [@[t] EXCEPT !.cancelled = TRUE]
                              ELSE @[t]]]
  /\ UNCHANGED <<is_processing, is_paused, appFrame>>

\* toggle_pause, the command of the Pause button (enabled when is_processing
\* is true): resume() when the converter is paused, pause() otherwise.
TogglePause ==
  /\ app.is_processing
  /\ is_paused' = ~is_paused
  /\ UNCHANGED <<is_processing, is_cancelled, app, appFrame>>

AppNext ==
  \/ StartConversion
  \/ RunConversion
  \/ BeginConvertFile
  \/ EnterConvertInThread
  \/ LeaveConvertInThread
  \/ RunCallback
  \/ RunDelayedReset
  \/ CancelConversion
  \/ TogglePause

SpecApp == AppInit /\ [][AppNext]_vars

(***************************************************************************)
(* Properties of EPUBExtractor.extract_text                                *)
(***************************************************************************)

\* The candidate extract_text selected in the last call, by its name.
SelectedCandidate ==
  IF last.out.selected = "Spine TOC" THEN last.out.spine_toc
  ELSE IF last.out.selected = "NCX TOC" THEN last.out.ncx_toc
  ELSE last.out.html_toc

\* The last call selected a candidate (it did not end in the except clause).
Selected == last.called /\ last.out.selected # "none"

\* C1: the selected candidate has the greatest chapter count: no candidate
\* has more chapters than the one extract_text renders.
C1_GreatestCountSelected ==
  Selected =>
    /\ Len(SelectedCandidate) >= Len(last.out.spine_toc)
    /\ Len(SelectedCandidate) >= Len(last.out.ncx_toc)
    /\ Len(SelectedCandidate) >= Len(last.out.html_toc)

\* The archive of C2: the package parses, there is no spine, and the NCX has
\* the navigation points 0001_0000.html, 0001_0001.html, 0002_0000.html.
IsC2Document(doc) ==
  /\ InSeq(NewExtractor.container_path, doc.namelist)
  /\ doc.container_parses /\ doc.has_rootfile /\ doc.opf_parses
  /\ InSeq(doc.full_path, doc.namelist)
  /\ doc.spine = <<>>
  /\ doc.ncx.readable
  /\ InSeq(InPackage(NcxHref), doc.namelist)
  /\ [k \in 1..Len(doc.ncx.nav_points) |-> doc.ncx.nav_points[k].src]
       = <<ContentFiles[1].href, ContentFiles[2].href, ContentFiles[3].href>>

\* C2: on the first call for that archive extract_text yields exactly two
\* chapters, "Chapter 01" and "Chapter 02", the first with primary file
\* 0001_0000.html and 0001_0001.html among its additional files.
C2_NavigationPointsGrouped ==
  (last.called /\ last.call = 1 /\ IsC2Document(last.doc)) =>
    /\ Len(last.out.returned) = 2
    /\ last.out.returned[1].title = ChapterWord \o <<"0", "1">>
    /\ last.out.returned[2].title = ChapterWord \o <<"0", "2">>
    /\ last.out.returned[1].file = InPackage(ContentFiles[1].href)
    /\ Len(last.out.self.toc) = 2
    /\ InSeq(InPackage(ContentFiles[2].href), last.out.self.toc[1].additional_files)

\* C6: a call returns what the call on a new extractor returned for the same
\* archive, whatever the instance was used for before.
C6_NoStateSurvives ==
  last.called => last.out.returned = fresh

\* The package metadata of the archive is broken: container.xml is missing
\* or unparsable, has no rootfile, or the OPF is missing or unparsable.
PackageBroken(doc) ==
  \/ ~InSeq(NewExtractor.container_path, doc.namelist)
  \/ ~doc.container_parses
  \/ ~doc.has_rootfile
  \/ ~InSeq(doc.full_path, doc.namelist)
  \/ ~doc.opf_parses

\* None of the three candidates of the last call has a chapter.
NoCandidate ==
  /\ last.out.spine_toc = <<>>
  /\ last.out.ncx_toc = <<>>
  /\ last.out.html_toc = <<>>

AllFilesFail(chapter, doc) ==
  \A f \in {chapter.file} \cup {chapter.additional_files[k] :
                                  k \in 1..Len(chapter.additional_files)} :
     \/ ~InSeq(f, doc.namelist)
     \/ f \in doc.unreadable
     \/ doc.text[f] = <<>>

\* C8: the returned list has one record per chapter of the selected
\* candidate, in its order and with its titles and files; a chapter all of
\* whose files fail is there with empty content.
C8_OneRecordPerChapter ==
  Selected =>
    /\ Len(last.out.returned) = Len(SelectedCandidate)
    /\ \A i \in 1..Len(SelectedCandidate) :
         /\ last.out.returned[i].title = SelectedCandidate[i].title
         /\ last.out.returned[i].file = SelectedCandidate[i].file
         /\ AllFilesFail(SelectedCandidate[i], last.doc)
              => last.out.returned[i].content = <<>>
         /\ ~AllFilesFail(SelectedCandidate[i], last.doc)
              => last.out.returned[i].content # <<>>

\* C8 witness: a returned list in which a chapter whose files all fail stands
\* with empty content before a chapter that has text, one failure being a
\* read error.
C8_Witness ==
  /\ Selected
  /\ last.doc.unreadable # {}
  /\ \E i, j \in 1..Len(last.out.returned) :
       /\ i < j
       /\ AllFilesFail(SelectedCandidate[i], last.doc)
       /\ last.out.returned[i].content = <<>>
       /\ last.out.returned[j].content # <<>>

C10_TiePrefersSpine ==
  (/\ last.called
   /\ last.out.spine_toc # <<>>
   /\ Len(last.out.spine_toc) = Len(last.out.ncx_toc)
   /\ Len(last.out.html_toc) <= Len(last.out.spine_toc))
  =>
   /\ last.out.selected = "Spine TOC"
   /\ [i \in 1..Len(last.out.returned) |-> last.out.returned[i].title]
        = [i \in 1..Len(last.out.spine_toc) |-> last.out.spine_toc[i].title]
   /\ last.out.self.toc = last.out.spine_toc

\* C10 witness: a tie of two chapters each between spine and navigation,
\* with different titles, resolved for the spine.
C10_Witness ==
  /\ last.called
  /\ Len(last.out.spine_toc) = 2
  /\ Len(last.out.ncx_toc) = 2
  /\ Len(last.out.html_toc) = 2
  /\ last.out.ncx_toc[1].title # last.out.spine_toc[1].title
  /\ last.out.selected = "Spine TOC"
  /\ last.out.returned[1].title = ChapterWord \o <<"0", "0", "1">>

\* The archive holds no navigation document (no NCX file) and its package
\* declares no spine itemref.
NoNavigationNoSpine(doc) ==
  /\ ~InSeq(InPackage(NcxHref), doc.namelist)
  /\ doc.spine = <<>>

\* The content documents of the archive in lexical path order.
LexicalFiles(doc) ==
  LET held == {i \in ContentIndex : InSeq(InPackage(ContentFiles[i].href), doc.namelist)}
  IN  [k \in 1..Cardinality(held) |-> InPackage(ContentFiles[Ascending(held)[k]].href)]

\* C11: for an EPUB whose package parses, without navigation document and
\* without spine, that holds n >= 1 HTML/XHTML files, extract_text returns
\* exactly n chapters, the i-th titled "Chapter " and i on three digits and
\* taken from the i-th file in lexical path order.
C11_RawHtmlChapters ==
  (/\ last.called
   /\ ~PackageBroken(last.doc)
   /\ NoNavigationNoSpine(last.doc)
   /\ HtmlFilesOf(last.doc.namelist) # <<>>)
  =>
   /\ Len(last.out.returned) = Len(HtmlFilesOf(last.doc.namelist))
   /\ \A i \in 1..Len(last.out.returned) :
        /\ last.out.returned[i].title = ChapterWord \o <<"0", "0">> \o StrOf(i)
        /\ last.out.returned[i].file = LexicalFiles(last.doc)[i]

\* C11 witness: three HTML files, listed by the archive in another order than
\* the lexical one, gave three chapters, the third titled "Chapter 003".
C11_Witness ==
  /\ last.called
  /\ ~PackageBroken(last.doc)
  /\ NoNavigationNoSpine(last.doc)
  /\ Len(HtmlFilesOf(last.doc.namelist)) = 3
  /\ HtmlFilesOf(last.doc.namelist) # LexicalFiles(last.doc)
  /\ Len(last.out.returned) = 3
  /\ last.out.returned[3].title = ChapterWord \o <<"0", "0", "3">>
  /\ last.out.returned[3].file = InPackage(ContentFiles[3].href)


(***************************************************************************)
(* Properties of AudioConverter                                            *)
(***************************************************************************)

\* C3: after cancel() is called while a conversion is running, no chunk of
\* the run (of this text or of a later chapter) that had not passed its
\* cancel check when cancel() was called passes one afterwards and goes to
\* the voice.
C3_CancelHonoredAtNextBoundary ==
  cancel_called =>
    \A k \in 1..Len(synthesized) : synthesized[k] \in passed_at_cancel

\* The chunk is one sentence: it has no paragraph break and the sentence
\* separator does not occur in it.
IsOneSentence(c) ==
  /\ Len(SplitOn(c, <<"\n", "\n">>)) = 1
  /\ Len(SplitOn(c, <<".", " ">>)) = 1

\* C4: every chunk of _split_into_chunks(text, N) has length at most N,
\* unless it is one sentence that is longer than N by itself.
C4_ChunksWithinLimit ==
  split.called =>
    \A k \in 1..Len(split.chunks) :
       \/ Len(split.chunks[k]) <= split.max_chars
       \/ IsOneSentence(split.chunks[k])

\* The letters of a text, in order.
Letters(s) == SelectSeq(s, LAMBDA c : c \notin {" ", "\n", "."})

\* C5: the chunks, read in list order, give the content of the text in its
\* original order, nothing missing, duplicated or moved: in particular the
\* letters of the chunks are the letters of the text in the same order.
C5_ChunksPreserveOrder ==
  split.called => Letters(Join(split.chunks, <<>>)) = Letters(split.text)

\* C14: for an empty text or a text of spaces and line breaks only,
\* _split_into_chunks returns the empty list, whatever the limit.
C14_BlankGivesNoChunks ==
  (split.called /\ Strip(split.text) = <<>>) => split.chunks = <<>>


(***************************************************************************)
(* Properties of PDFExtractor                                              *)
(***************************************************************************)

\* The file opens and the text of each of its pages can be read.
Readable(doc) == doc.opens /\ doc.unreadable = {}

\* No line of a page matches one of CHAPTER_PATTERNS, and no pattern matches
\* in the text of a page.
PatternFree(doc) ==
  \A n \in 1..Len(doc.pages), k \in 1..7 :
     /\ FindIter(k, doc.pages[n], 1) = <<>>
     /\ \A j \in 1..Len(StrippedLines(doc.pages[n])) :
          MatchAt(k, LowerText(StrippedLines(doc.pages[n])[j]), 1) = 0

\* None of the first five non-empty lines of a page holds a chapter keyword
\* (in a line shorter than 50 characters).
KeywordFree(doc) ==
  \A n \in 1..Len(doc.pages) :
     \A j \in 1..Len(StrippedLines(doc.pages[n])) :
        j <= 5 => ~IsChapterTitle(StrippedLines(doc.pages[n])[j])

\* What C12 promises of the last call on a file of N pages: get_chapters gave
\* "Página 1" to "Página N", extract_chapter(i) gave the text of page i alone.
PageFallback ==
  /\ pdf_last.op = "get_chapters"
       => pdf_last.out.returned = [i \in 1..Len(pdf_file.pages) |-> PageWord \o StrOf(i)]
  /\ (pdf_last.op = "extract_chapter" /\ pdf_last.chapter_index < Len(pdf_file.pages))
       => /\ ~pdf_last.out.raised
          /\ pdf_last.out.value = pdf_file.pages[pdf_last.chapter_index + 1]

C13_CleanTextIdempotent == clean.called => clean.twice = clean.once

\* C13 witness: a text of two lines with a separator and a punctuation mark
\* that clean_text changed into a non-empty text, which it then left as it
\* was.
C13_Witness ==
  /\ clean.called
  /\ \E i, j, k \in 1..Len(clean.text) :
       clean.text[i] = "\n" /\ clean.text[j] = "-" /\ clean.text[k] = "."
  /\ clean.once # <<>>
  /\ clean.once # clean.text
  /\ \E i \in 1..Len(clean.once) : clean.once[i] = "."
  /\ clean.twice = clean.once


(***************************************************************************)
(* Properties of the chapter titles                                        *)
(***************************************************************************)

\* The characters of a name made only of digits and separators.
DigitsAndSeparators == {"0", "_", "-"}

\* C15: every chapter of every strategy (navigation, spine, raw HTML, PDF
\* headings and PDF page fallback) has a title that is not the empty string,
\* also when the file name is empty or made only of digits and separators.
C15_TitlesNonEmpty ==
  titled.strategy # "none" =>
    \A i \in 1..Len(titled.titles) : titled.titles[i] # <<>>

\* A navigation point whose file name is made only of digits and separators
\* gave a chapter, titled "Untitled".
C15_Witness ==
  /\ titled.strategy = "navigation"
  /\ titled.source # <<>>
  /\ \A i \in 1..Len(titled.source) : titled.source[i] \in DigitsAndSeparators
  /\ titled.titles = <<Untitled>>


(***************************************************************************)
(* Properties of get_extractor and the conversion entry points             *)
(***************************************************************************)

\* The path ends in the suffix, whatever the case of its letters.
HasExtension(file_path, suffix) == EndsWith(Lower(file_path), suffix)

\* The path has neither of the two supported extensions.
Unsupported(file_path) ==
  ~HasExtension(file_path, PdfSuffix) /\ ~HasExtension(file_path, EpubSuffix)

\* C16: a conversion entry point (TextToSpeechApp._convert_file,
\* AudioConverter.convert_file) given a path with an unsupported extension
\* reports the unsupported format, and does not call extract_text.
C16_UnsupportedFormatReported ==
  (entry.op \in {"_convert_file", "convert_file"} /\ Unsupported(entry.file_path)) =>
    /\ entry.extract_text_on = 0
    /\ entry.raised = [type |-> "ValueError",
                       message |-> "Formato de archivo no soportado"]

\* C17: get_extractor returns a PDFExtractor for a path ending in .pdf, an
\* EPUBExtractor for a path ending in .epub, in any case of the letters,
\* and None for every other path; the extractor returned is an instance
\* that did not exist before the call, in the state __init__ leaves.
C17_DispatchByExtension ==
  entry.op = "get_extractor" =>
    /\ HasExtension(entry.file_path, PdfSuffix) =>
          entry.ref # 0 /\ instances[entry.ref].class = "PDFExtractor"
    /\ HasExtension(entry.file_path, EpubSuffix) =>
          entry.ref # 0 /\ instances[entry.ref].class = "EPUBExtractor"
    /\ Unsupported(entry.file_path) =>
          entry.ref = 0 /\ Len(instances) = entry.before
    /\ entry.ref # 0 =>
          /\ entry.ref > entry.before
          /\ Len(instances) = entry.before + 1
          /\ instances[entry.ref].fields \in {NewPdfExtractor, NewExtractor}

\* A second get_extractor call, on a path ending in .PDF, returned a
\* PDFExtractor.
C17_Witness ==
  /\ entry.op = "get_extractor"
  /\ entry.before = 1
  /\ entry.file_path = <<"b", ".", "P", "D", "F">>
  /\ entry.ref = 2
  /\ instances[2].class = "PDFExtractor"


(***************************************************************************)
(* Properties of the spine candidate                                       *)
(***************************************************************************)

\* C18: the spine candidate has one chapter per itemref whose idref is a
\* manifest id, in spine order, duplicates kept, and the chapter at position
\* i (from 1) is titled "Chapter " and i in three digits, also after an
\* unresolved idref.
C18_SpineTitledByPosition ==
  titled.strategy = "spine" =>
    LET resolved == SelectSeq(titled.source, LAMBDA id : id \in DOMAIN titled.id_to_href) IN
    /\ titled.files = [i \in 1..Len(resolved) |-> titled.id_to_href[resolved[i]]]
    /\ titled.titles = [i \in 1..Len(resolved) |-> ChapterWord \o Fmt0(i, 3)]


(***************************************************************************)
(* Properties of _extract_text_from_html                                   *)
(***************************************************************************)

\* C19: without class attributes, the text returned is the blocks joined by
\* blank lines; no block is empty and no two consecutive blocks have the
\* same text, also when a container wraps a single paragraph.
C19_NoEmptyNoRepeatedBlock ==
  rendered.called =>
    LET paragraphs == rendered.out.paragraphs IN
    /\ rendered.out.text = Join(paragraphs, <<"\n", "\n">>)
    /\ \A k \in 1..Len(paragraphs) : paragraphs[k] # <<>>
    /\ \A k \in 1..(Len(paragraphs) - 1) : paragraphs[k] # paragraphs[k + 1]


(***************************************************************************)
(* Properties of PDFExtractor.extract_chapter                              *)
(***************************************************************************)

\* The text of a page after the line that produced the title: the first line
\* that holds the title (the first line of the title, for a title matched
\* across lines).
AfterHeadingLine(page_text, title) ==
  LET lines == SplitOn(page_text, <<"\n">>)
      head == SplitOn(title, <<"\n">>)[1]
      hits == {j \in 1..Len(lines) : Contains(lines[j], head)}
  IN  IF hits = {} THEN page_text
      ELSE Join(Slice(lines, (CHOOSE j \in hits : \A h \in hits : j <= h) + 1, Len(lines)),
                <<"\n">>)

\* The body of chapter k (from 1) of the instance: the pages from its anchor
\* to the one before the next anchor, the anchor page cut after the heading
\* line, pages without text left out.
BodyOf(self, doc, k) ==
  LET start_page == self.chapter_pages[k]
      end_page == IF k < Len(self.chapter_pages) THEN self.chapter_pages[k + 1]
                  ELSE Len(doc.pages)
      with_text == SelectSeq([j \in 1..(end_page - start_page) |-> start_page + j],
                             LAMBDA i : doc.pages[i] # <<>>)
  IN  Join([j \in 1..Len(with_text) |->
              IF with_text[j] = start_page + 1
              THEN AfterHeadingLine(doc.pages[with_text[j]], self.chapter_titles[k])
              ELSE doc.pages[with_text[j]]],
           <<"\n", "\n">>)

\* C20: for a chapter get_chapters found, extract_chapter returns the pages
\* from the anchor page to the one before the next anchor, and of the anchor
\* page only what follows the line that produced the title, whether the
\* title came from the first five lines or from a pattern match.
C20_BodyWithoutHeadingLine ==
  (/\ pdf_last.op = "extract_chapter"
   /\ ~pdf_last.out.raised
   /\ pdf_extractor.chapter_titles # <<>>
   /\ pdf_last.chapter_index < Len(pdf_extractor.chapter_titles)) =>
    pdf_last.out.value = BodyOf(pdf_extractor, pdf_file, pdf_last.chapter_index + 1)


(***************************************************************************)
(* Properties of the files of convert_text_to_speech                       *)
(***************************************************************************)

\* The temporary chunk files that exist.
TempFilesOnDisk == {f \in disk : f[1] = "temp_chunk"}

\* No convert_text_to_speech call is between its entry and the end of its
\* finally clause.
OutsideCall == pc \in {"idle", "call", "complete", "error"}

\* C21: the output file of a call is written from the files of all its
\* chunks, in chunk order, after each of them was synthesized; a call that
\* returns False or raises while a chunk is processed has written no output
\* file; and no temporary chunk file remains once a call has ended.
C21_OutputAfterAllChunks ==
  /\ \A k \in 1..Len(combined) :
       /\ combined[k].input_files = [i \in 1..texts[combined[k].call] |-> i]
       /\ \A i \in 1..texts[combined[k].call] :
            \E j \in 1..Len(synthesized) : synthesized[j] = <<combined[k].call, i>>
  /\ (pc \in {"finally", "complete", "error"} /\ pending \in {"False", "Exception"}) =>
       /\ \A k \in 1..Len(combined) : combined[k].call # call
       /\ OutputFile(chapter_nums[call]) \notin disk
  /\ OutsideCall => TempFilesOnDisk = {}

\* A call of two chunks was cancelled after its first chunk was synthesized
\* and has returned False: no file of it is left.
C21_Witness ==
  /\ pc = "complete"
  /\ pending = "False"
  /\ texts[call] = 2
  /\ synthesized # <<>>
  /\ synthesized[Len(synthesized)] = <<call, 1>>
  /\ disk = {}


(***************************************************************************)
(* Properties of the output files of a per-chapter run                     *)
(***************************************************************************)

\* The characters removed from a title before it is used in a file name.
InvalidFilenameChars == {"\\", "/", "*", "?", ":", "\"", "<", ">", "|"}

\* The title without those characters.
Sanitized(title) == SelectSeq(title, LAMBDA c : c \notin InvalidFilenameChars)

\* C22: a per-chapter run writes one file per selected chapter; its name is
\* the base output path, then the chapter's number (from 1, in the chapter
\* list as extracted) in two digits and its title without the characters
\* \ / * ? : " < > |, then the extension; the names are distinct.
C22_ChapterFilesNamedByNumberAndTitle ==
  (named.called /\ ~named.selected_chapters.is_none) =>
    LET indices == named.selected_chapters.indices IN
    /\ Len(named.files) = Len(indices)
    /\ \A i \in 1..Len(indices) :
         /\ StartsWith(named.files[i], OutputBase)
         /\ Contains(named.files[i], Fmt0(indices[i] + 1, 2))
         /\ EndsWith(named.files[i], Sanitized(named.titles[indices[i] + 1]) \o OutputExt)
    /\ \A i, j \in 1..Len(indices) : i # j => named.files[i] # named.files[j]


(***************************************************************************)
(* Properties of pause()                                                   *)
(***************************************************************************)

\* C23: from a pause() until the next resume() or cancel(), no chunk goes to
\* the voice unless it had left the pause loop before the pause, be it a
\* chunk of the same call or of the next chapter.
C23_PauseHoldsUntilResume ==
  pause_called =>
    \A k \in 1..Len(synthesized) : synthesized[k] \in passed_at_pause


(***************************************************************************)
(* Properties of the navigation candidate                                  *)
(***************************************************************************)

\* [chapter['file']] + chapter.get('additional_files', [])
ChapterFiles(chapter) == <<chapter.file>> \o chapter.additional_files

\* The sequence of strings is in ascending order.
AscendingStrings(files) ==
  \A k \in 1..(Len(files) - 1) : files[k] = files[k + 1] \/ StrLess(files[k], files[k + 1])

\* C24: in the navigation candidate of a first call, every file a navigation
\* point targets is in one chapter, once in the list of its files, also when
\* several navigation points target the file; the chapters are in ascending
\* order of their primary files and the files of a chapter are ascending.
C24_NavigationFilesOnce ==
  (last.called /\ last.call = 1 /\ last.out.ncx_toc # <<>>) =>
    LET toc == last.out.ncx_toc
        nav_points == last.doc.ncx.nav_points
        targets == {ResolvePath(InPackage(NcxHref), BeforeFragment(nav_points[k].src)) :
                      k \in 1..Len(nav_points)}
    IN  /\ \A f \in targets :
             Cardinality({<<c, j>> \in (1..Len(toc)) \X (1..(MaxNavPoints + 1)) :
                            j <= Len(ChapterFiles(toc[c])) /\ ChapterFiles(toc[c])[j] = f}) = 1
        /\ AscendingStrings([c \in 1..Len(toc) |-> toc[c].file])
        /\ \A c \in 1..Len(toc) : AscendingStrings(ChapterFiles(toc[c]))


(***************************************************************************)
(* Properties of the page ranges of the PDF chapters                       *)
(***************************************************************************)

\* The pages (from 0) that extract_chapter reads for chapter k (from 1):
\* range(start_page, end_page).
PageRange(self, doc, k) ==
  {i \in 0..(Len(doc.pages) - 1) :
     /\ self.chapter_pages[k] <= i
     /\ i < (IF k < Len(self.chapter_pages) THEN self.chapter_pages[k + 1]
             ELSE Len(doc.pages))}

\* C25: after get_chapters has found headings, chapter_titles and
\* chapter_pages have the same length, chapter_pages does not decrease, and
\* every page of the file is in the page range of exactly one chapter.
C25_ChaptersPartitionPages ==
  (pdf_last.op = "get_chapters" /\ pdf_extractor.chapter_titles # <<>>) =>
    LET chapter_pages == pdf_extractor.chapter_pages IN
    /\ Len(pdf_extractor.chapter_titles) = Len(chapter_pages)
    /\ \A k \in 1..(Len(chapter_pages) - 1) : chapter_pages[k] <= chapter_pages[k + 1]
    /\ \A i \in 0..(Len(pdf_file.pages) - 1) :
         Cardinality({k \in 1..Len(chapter_pages) :
                        i \in PageRange(pdf_extractor, pdf_file, k)}) = 1


\* The conversion run is one file per selected chapter (chapter-based branch
\* of _convert_file), not the single combined file.
PerChapterRun == call >= 1 /\ chapter_nums[call] # 0

\* C26: in a per-chapter run a selected chapter whose content is empty is not
\* an error: the run is never aborted at the call that converts such a chapter
\* (so the later selected chapters are still converted).
C26_EmptyChapterDoesNotAbort ==
  ~(PerChapterRun /\ texts[call] = 0 /\ pc = "error")


\* The threads the user has not cancelled since they were started.
Uncancelled == {t \in ActiveThreads : ~app.threads[t].cancelled}

\* C27: from start_conversion until the conversion completes, fails or is
\* cancelled the app is in the processing state, and at most one thread is
\* inside convert_text_to_speech on the shared AudioConverter.
C27_ProcessingUntilConversionEnds ==
  /\ Uncancelled # {} => app.is_processing
  /\ Cardinality(ConvertingThreads) <= 1

\* C28: on_conversion_complete is not invoked for a run in which
\* convert_text_to_speech returned False.
C28_CancelledRunNotCompleted ==
  \A t \in app.completed : "False" \notin app.threads[t].results


\* A step by which a thread of the app finishes a convert_text_to_speech
\* call: by the ValueError of the validation, or through the finally clause.
FinishesConvert(t) ==
  \/ app.threads[t].at = "call" /\ app'.threads[t].at = "done"
  \/ app.threads[t].at = "convert_text_to_speech" /\
       app'.threads[t].at # "convert_text_to_speech"

\* C29 (resume): a conversion in the pause loop whose pause was lifted leaves
\* the loop and sends its chunk to the voice, unless pause() or cancel() is
\* called again first.
C29_ResumedConversionSynthesizes ==
  (pc = "wait" /\ ~is_paused /\ ~is_cancelled) ~>
    (pc = "synthesize" \/ is_paused \/ is_cancelled)

\* C29 (cancel): a conversion cancelled in the pause loop returns False.
C29_CancelledWhilePausedReturnsFalse ==
  (pc = "wait" /\ is_paused /\ is_cancelled) ~> (pc = "finally" /\ pending = "False")

\* C29 (cancel): a cancelled conversion in the pause loop or at the check
\* after it synthesizes no further chunk.
C29_CancelledWhilePausedSynthesizesNothing ==
  [][(pc \in {"wait", "recheck"} /\ is_cancelled) =>
       (synthesized' = synthesized /\ pc' # "synthesize")]_vars

\* C29: a conversion waiting in the pause loop goes on once the user resumes
\* or cancels it, and when convert_text_to_speech has finished by any path,
\* is_processing, is_paused and is_cancelled are all false.
C29_FlagsClearedWhenFinished ==
  [][\A t \in 1..Len(app.threads) :
       FinishesConvert(t) => (~is_processing' /\ ~is_paused' /\ ~is_cancelled')]_vars


\* convert_text_to_speech has ended by an error for a text that is not empty
\* without reaching its chunk loop: the voice lookup raised.
VoiceLookupFailed == pc = "error" /\ call >= 1 /\ texts[call] > 0 /\ chunk = 0

\* C30: with a text that is not empty and a voice the catalog does not have,
\* the caller receives the voice-not-found error, no chunk of the text is
\* synthesized and is_processing is false afterwards.
C30_VoiceNotFoundReachesCaller ==
  VoiceLookupFailed =>
    /\ pending = "voice not found"
    /\ \A k \in 1..Len(synthesized) : synthesized[k][1] # call
    /\ ~is_processing

====
